---- MODULE Spec2Model ----
(***************************************************************************)
(* x402 SDK: the server-side payment gate (x402Middleware for Express,     *)
(* withX402 for Next.js), the FacilitatorClient with its retry wrapper,    *)
(* and the EVM and Solana client payment flows.                            *)
(***************************************************************************)
EXTENDS Integers, Sequences, FiniteSets, TLC

VARIABLES
    gateKind,      \* "express" (x402Middleware) or "nextjs" (withX402)
    entries,       \* the gate's ResolvedEntry[] (configuration order)
    gpc,           \* where x402Handler stands: idle, verifying, settling, handler, done
    req,           \* the request's payment headers
    paymentPayload, \* the decoded header (JSON value)
    matched,       \* index into entries of the matched entry, 0 before a match
    attempt,       \* withRetry's attempt counter of the running facilitator call
    sent,          \* HTTP requests sent to the facilitator, per endpoint, and their X-API-Key
    verifyResult,  \* how facilitator.verify ended: none / resolved / rejected
    settleResult,  \* how facilitator.settle ended: none / resolved / rejected
    res,           \* the response (Express res object / Next.js returned Response)
    writes,        \* how many times the gate wrote (Express) or returned (Next.js) a 402
    nextCalled,    \* how many times downstream (next() / handler) was invoked
    responseHeaders, \* Next.js gate: the PAYMENT-RESPONSE header waiting to be merged
    handlerResponse, \* Next.js gate: what the downstream handler returned
    promise        \* the async handler's promise: pending / fulfilled / rejected

gateVars == <<gateKind, entries, gpc, req, paymentPayload, matched, attempt, sent,
              verifyResult, settleResult, res, writes, nextCalled, responseHeaders,
              handlerResponse, promise>>

VARIABLES
    clientKind,    \* "evm" (createX402Client) or "solana" (createSolanaX402Client)
    options,       \* the client's construction options
    fetches,       \* how many times client.fetch was called on this client
    requestOptions, \* the options of the running client.fetch call
    cpc,           \* where client.fetch stands
    cattempt,      \* withRetry's attempt counter of the running call
    lastError,     \* withRetry's lastError of the running call
    calls,         \* what the running client.fetch has called so far, per kind
    initialResponse, \* the response to the initial request
    selected,      \* the requirement picked by selectRequirement
    signerCache,   \* FacilitatorClient.signerCache (one facilitator URL per client)
    built,         \* the payment payload being built / built
    paidHeaders,   \* the payment headers of the last paid request sent
    permit,        \* buildPaymentPayload's signPermit: none / attempted / failed / signed
    balance,       \* Step 3's `const balance`, once getTokenBalance has returned
    outcome        \* how client.fetch ended: pending / returned / threw

clientVars == <<clientKind, options, fetches, requestOptions, cpc, cattempt, lastError, calls, initialResponse,
                selected, signerCache, built, paidHeaders, balance, permit, outcome>>

\* selectRequirement called on its own
VARIABLES
    selectorInput,  \* which selector, and its arguments
    selectorResult  \* what it returned

selectorVars == <<selectorInput, selectorResult>>

\* withRetry called on its own
VARIABLES
    retryOpts, \* withRetry's opts: { ...DEFAULT_OPTIONS, ...options }
    loop,   \* withRetry's locals attempt, delay, lastError, and where it stands
    log     \* fn's invocations, the delays awaited, and how withRetry ended

retryVars == <<retryOpts, loop, log>>

\* a FacilitatorClient used on its own
VARIABLES
    facilitator, \* the instance: overrideUrl, timeoutMs, apiKey, signerCache
    fcall,       \* the verify or settle call in progress
    discoveries, \* the getSignerForNetwork calls, one per caller
    health       \* the isHealthy call

facVars == <<facilitator, fcall, discoveries, health>>

\* the useX402 hook, and the facilitator's /supported document
VARIABLES
    hook,      \* the hook's React state: paying, lastPayment, error
    hookCalls, \* the calls of the hook's fetch, one per caller
    remote     \* what the facilitator's /supported endpoint serves

hookVars == <<hook, hookCalls>>

libVars == <<selectorVars, retryVars, facVars, hookVars, remote>>

vars == <<gateVars, clientVars, libVars>>

-----------------------------------------------------------------------------
(* JavaScript values *)

\* `undefined` (an optional field that is absent)
Undefined == "<undefined>"

\* a template literal's rendering of a value
Str(x) == IF x = Undefined THEN "undefined" ELSE x

\* JavaScript truthiness of an optional string
Truthy(x) == x # Undefined /\ x # ""

\* a ?? b
Coalesce(a, b) == IF a # Undefined THEN a ELSE b

-----------------------------------------------------------------------------
(* Network registry *)

SUPPORTED_NETWORKS ==
    [n \in {"base", "base-sepolia", "radius", "radius-testnet", "solana", "solana-devnet"} |->
        CASE n = "base" ->
               [chainId |-> 8453, rpcUrl |-> "https://mainnet.base.org", decimals |-> 18,
                facilitatorAddress |-> "0xdeE7", defaultAsset |-> "0xfdcC", tokenName |-> "Stable Coin",
                facilitatorUrl |-> "https://x402.stablecoin.xyz"]
          [] n = "base-sepolia" ->
               [chainId |-> 84532, rpcUrl |-> "https://sepolia.base.org", decimals |-> 6,
                facilitatorAddress |-> "0xdeE7", defaultAsset |-> "0xf9FB", tokenName |-> "Stable Coin",
                facilitatorUrl |-> "https://x402.stablecoin.xyz"]
          [] n = "radius" ->
               [chainId |-> 723, rpcUrl |-> "", decimals |-> 6,
                facilitatorAddress |-> "0xdeE7", defaultAsset |-> "", tokenName |-> "Stable Coin",
                facilitatorUrl |-> "https://x402.stablecoin.xyz"]
          [] n = "radius-testnet" ->
               [chainId |-> 72344, rpcUrl |-> "", decimals |-> 6,
                facilitatorAddress |-> "0xdeE7", defaultAsset |-> "", tokenName |-> "Stable Coin",
                facilitatorUrl |-> "https://x402.stablecoin.xyz"]
          [] n = "solana" ->
               [chainId |-> 0, rpcUrl |-> "https://api.mainnet-beta.solana.com", decimals |-> 9,
                facilitatorAddress |-> "2mSj", defaultAsset |-> "", tokenName |-> "",
                facilitatorUrl |-> "https://x402.stablecoin.xyz"]
          [] n = "solana-devnet" ->
               [chainId |-> 0, rpcUrl |-> "https://api.devnet.solana.com", decimals |-> 9,
                facilitatorAddress |-> "2mSj", defaultAsset |-> "", tokenName |-> "",
                facilitatorUrl |-> "https://x402.stablecoin.xyz"]]

IsSupported(network) == network \in DOMAIN SUPPORTED_NETWORKS

\* friendly network name -> CAIP-2 identifier (defined on supported names only)
toCAIP2(network) ==
    IF network = "solana" THEN "solana:mainnet-beta"
    ELSE IF network = "solana-devnet" THEN "solana:devnet"
    ELSE "eip155:" \o ToString(SUPPORTED_NETWORKS[network].chainId)

-----------------------------------------------------------------------------
(* base64 and JSON.  A text is [json, val]: json says whether the text is  *)
(* JSON at all, val is the value it denotes.  A header string is           *)
(* [str, text]: str is "undefined" (header not set), "empty", "plain" (not *)
(* the base64 of anything) or "b64" (the base64 encoding of text).         *)

JSONstringify(v) == [json |-> TRUE, val |-> v]

\* JSON.parse: throws on a text that is not JSON
JSONparse(t) == [threw |-> ~t.json, val |-> t.val]

toBase64(text) == [str |-> "b64", text |-> text]

\* Buffer.from(str, "base64") never throws: what is not base64 decodes to bytes
\* that are not JSON
fromBase64(h) == IF h.str = "b64" THEN h.text ELSE [json |-> FALSE, val |-> h.text.val]

-----------------------------------------------------------------------------
(* Bounds of the model *)

\* the longest configured offer list
MaxEntries == 2

\* how many times client.fetch is called on one client
MaxFetches == 1

-----------------------------------------------------------------------------
(* The values a request, the facilitator and downstream can supply *)

\* JSON values a payment header can decode to
NullDoc == [kind |-> "null", accepted |-> FALSE, network |-> Undefined]

PayloadNetworks == {"eip155:84532", "solana:devnet", "eip155:8453", "eip155:1"}

PayloadDocs ==
    {[kind |-> k, accepted |-> FALSE, network |-> Undefined] :
        k \in {"null", "number", "string", "array", "object"}}
    \cup {[kind |-> "object", accepted |-> TRUE, network |-> n] : n \in PayloadNetworks}

NotJson == [json |-> FALSE, val |-> NullDoc]

NoHeader == [str |-> "undefined", text |-> NotJson]

HeaderValues ==
    {NoHeader, [str |-> "empty", text |-> NotJson], [str |-> "plain", text |-> NotJson],
     toBase64(NotJson)}
    \cup {toBase64(JSONstringify(d)) : d \in PayloadDocs}

LegacyValues ==
    {NoHeader, toBase64(JSONstringify(NullDoc)),
     toBase64(JSONstringify([kind |-> "object", accepted |-> TRUE, network |-> "eip155:84532"]))}

\* X402MiddlewareOptions / WithX402Options a gate can be built from
\* (settle is optional: "undefined" when the option is not given)
EntryOptions ==
    {[network |-> "base-sepolia", amount |-> "1000000", payTo |-> "0xaaaa", settle |-> "undefined",
      apiKey |-> "sbc_key"],
     [network |-> "base-sepolia", amount |-> "2000000", payTo |-> "0xbbbb", settle |-> "false",
      apiKey |-> Undefined],
     [network |-> "solana-devnet", amount |-> "1000000", payTo |-> "2mSj", settle |-> "true",
      apiKey |-> Undefined]}

Configs == UNION {[1..n -> EntryOptions] : n \in 1..MaxEntries}

\* VerifyResponse bodies (null: the facilitator answered the JSON text null)
NullVerify == [kind |-> "null", isValid |-> FALSE, invalidReason |-> Undefined]

VerifyDocs ==
    {NullVerify, [kind |-> "object", isValid |-> TRUE, invalidReason |-> Undefined]}
    \cup {[kind |-> "object", isValid |-> FALSE, invalidReason |-> r] :
            r \in {Undefined, "", "Expired"}}

\* SettleResponse bodies
NullSettle == [kind |-> "null", success |-> FALSE, txHash |-> Undefined,
               transaction |-> Undefined, error |-> Undefined, errorReason |-> Undefined]

SettleDocs ==
    {NullSettle}
    \cup {[kind |-> "object", success |-> TRUE, txHash |-> t, transaction |-> a,
           error |-> Undefined, errorReason |-> Undefined] :
            t \in {Undefined, "", "0xabc"}, a \in {Undefined, "0xdef"}}
    \cup {[kind |-> "object", success |-> FALSE, txHash |-> Undefined,
           transaction |-> Undefined, error |-> e, errorReason |-> r] :
            e \in {Undefined, "", "Gas too low"}, r \in {Undefined, "insufficient_funds"}}

\* What one HTTP exchange with the facilitator can come to.  tok: the response
\* body (status) or the transport error's message (neterr) contains one of
\* withRetry's retryable tokens.
HttpOutcomes(docs, nullDoc) ==
    {[kind |-> "json", doc |-> d, tok |-> FALSE, status |-> 200] : d \in docs}
    \cup {[kind |-> "status", doc |-> nullDoc, tok |-> t, status |-> 503] : t \in BOOLEAN}
    \cup {[kind |-> "neterr", doc |-> nullDoc, tok |-> t, status |-> 0] : t \in BOOLEAN}
    \cup {[kind |-> "nonjson", doc |-> nullDoc, tok |-> FALSE, status |-> 200],
          [kind |-> "abort", doc |-> nullDoc, tok |-> FALSE, status |-> 0]}

\* Responses the downstream Next.js handler can return
NoChallenge == [str |-> "undefined",
                text |-> [json |-> FALSE, val |-> [x402Version |-> 0, accepts |-> <<>>]]]

NoConfirmation == [success |-> FALSE, transaction |-> Undefined, network |-> Undefined]

NoPaymentResponse == [str |-> "undefined", text |-> [json |-> FALSE, val |-> NoConfirmation]]

OwnPaymentResponse == [str |-> "plain", text |-> [json |-> FALSE, val |-> NoConfirmation]]

EmptyBody == [x402Version |-> 0, hasAccepts |-> FALSE, accepts |-> <<>>,
              error |-> Undefined, content |-> ""]

\* the Express res object before anything is written to it
BlankResponse == [status |-> 200, body |-> EmptyBody, paymentRequired |-> NoChallenge,
                  paymentResponse |-> NoPaymentResponse, custom |-> Undefined]

HandlerResponses ==
    {[status |-> st, body |-> [EmptyBody EXCEPT !.content = "premium"],
      paymentRequired |-> NoChallenge, paymentResponse |-> pr, custom |-> c] :
        st \in {200, 404}, pr \in {NoPaymentResponse, OwnPaymentResponse},
        c \in {Undefined, "x-custom-value"}}

-----------------------------------------------------------------------------
(* Retry executor and facilitator client *)

\* DEFAULT_OPTIONS.retryableErrors
retryableErrors == {"ECONNRESET", "ETIMEDOUT", "ENOTFOUND", "ECONNREFUSED", "TIMEOUT", "NETWORK_ERROR"}

\* verify and settle call withRetry with { maxAttempts: 3 }
maxAttempts == 3

NoError == [name |-> "", message |-> "", tokens |-> {}]

\* An error: its name, its message, and the retryable tokens that occur in the
\* name or the message as (case-sensitive) substrings.
\* "PaymentTimeoutError" and "... timed out" contain none ("TIMEOUT" is upper case).
isRetryable(err) == \E errMsg \in retryableErrors : errMsg \in err.tokens

\* response.text() of a non-2xx answer
responseText(o) == IF o.tok THEN "upstream ETIMEDOUT" ELSE "internal error"

\* One pass through the function verify/settle hand to withRetry:
\* fetchWithTimeout, the response.ok test and response.json().
facilitatorAttempt(op, o) ==
    CASE o.kind = "json" -> [ok |-> TRUE, doc |-> o.doc, err |-> NoError]
      [] o.kind = "status" ->
            [ok |-> FALSE, doc |-> o.doc,
             err |-> [name |-> "FacilitatorError",
                      message |-> "Facilitator " \o op \o " failed: " \o responseText(o),
                      tokens |-> IF o.tok THEN {"ETIMEDOUT"} ELSE {},
                      statusCode |-> o.status]]
      [] o.kind = "nonjson" ->
            [ok |-> FALSE, doc |-> o.doc,
             err |-> [name |-> "FacilitatorError",
                      message |-> "Facilitator " \o op \o " returned non-JSON response",
                      tokens |-> {}, statusCode |-> o.status]]
      [] o.kind = "neterr" ->
            [ok |-> FALSE, doc |-> o.doc,
             err |-> IF o.tok
                     THEN [name |-> "Error", message |-> "read ECONNRESET",
                           tokens |-> {"ECONNRESET"}]
                     ELSE [name |-> "TypeError", message |-> "fetch failed", tokens |-> {}]]
      [] o.kind = "abort" ->
            [ok |-> FALSE, doc |-> o.doc,
             err |-> [name |-> "PaymentTimeoutError",
                      message |-> "Facilitator request timed out", tokens |-> {}]]

\* retry.ts DEFAULT_OPTIONS
DEFAULT_OPTIONS ==
    [maxAttempts |-> 3, initialDelay |-> 1000, maxDelay |-> 10000, backoffMultiplier |-> 2,
     retryableErrors |-> retryableErrors]

\* { ...DEFAULT_OPTIONS, ...options }: the fields options has replace the defaults
mergeOptions(given) ==
    [f \in DOMAIN DEFAULT_OPTIONS |->
        IF f \in DOMAIN given THEN given[f] ELSE DEFAULT_OPTIONS[f]]

\* opts.retryableErrors.some(errMsg => message.includes(errMsg) || name.includes(errMsg))
isRetryableWith(retryable, err) == \E errMsg \in retryable : errMsg \in err.tokens

\* mutant: every error is retried until the attempts run out
afterFailureAlwaysRetry(o, n, err) ==
    IF n = o.maxAttempts THEN "throw" ELSE "sleep"

\* mutant: the last attempt is given up
afterFailureOneShort(o, n, err) ==
    IF ~isRetryableWith(o.retryableErrors, err) \/ n >= o.maxAttempts - 1
    THEN "throw" ELSE "sleep"

\* the catch block of withRetry: rethrow, or sleep and go round again
afterFailure(o, n, err) ==
    IF ~isRetryableWith(o.retryableErrors, err) \/ n = o.maxAttempts THEN "throw" ELSE "sleep"

\* Math.min(a, b)
min(a, b) == IF a <= b THEN a ELSE b

\* withRetry's decision after one attempt: "return", "throw" or "retry"
withRetry(r, n) ==
    IF r.ok THEN "return"
    ELSE IF ~isRetryable(r.err) \/ n = maxAttempts THEN "throw"
    ELSE "retry"

NoResult(nullDoc) == [state |-> "none", doc |-> nullDoc, err |-> NoError]

-----------------------------------------------------------------------------
(* The gate's helpers *)

buildRequirement(resource, payTo, amount, asset, network) ==
    [scheme |-> "exact", network |-> network, maxAmountRequired |-> amount,
     resource |-> resource, payTo |-> payTo, asset |-> asset, maxTimeoutSeconds |-> 300,
     facilitator |-> SUPPORTED_NETWORKS[network].facilitatorAddress]

\* The ResolvedEntry[] built at construction: settle defaults to true
\* (opt.settle !== false), asset to the network's default asset (no entry
\* option of the model sets asset)
resolveEntries(optArray) ==
    [i \in 1..Len(optArray) |->
        [network |-> optArray[i].network, amount |-> optArray[i].amount,
         payTo |-> optArray[i].payTo, settle |-> (optArray[i].settle # "false"),
         apiKey |-> optArray[i].apiKey,
         asset |-> SUPPORTED_NETWORKS[optArray[i].network].defaultAsset]]

\* the X-API-Key header on the requests of an entry's FacilitatorClient:
\* x402Middleware constructs the client from facilitatorUrl and fetchFn only,
\* withX402 hands it opt.apiKey as well; the header is set for a truthy key
apiKeyHeader(kind, entry) ==
    IF kind = "nextjs" /\ Truthy(entry.apiKey) THEN entry.apiKey ELSE Undefined

\* mutant: only the first configured entry is offered
buildRequirementsFirstOnly(resource, es) ==
    <<buildRequirement(resource, es[1].payTo, es[1].amount, es[1].asset, es[1].network)>>

buildRequirements(resource, es) ==
    [i \in 1..Len(es) |->
        buildRequirement(resource, es[i].payTo, es[i].amount, es[i].asset, es[i].network)]

\* mutant: whatever verify answers is taken for valid
isValidAlways(doc) == TRUE

\* if (!verifyResult.isValid), on a document that is not null
isValid(doc) == doc.isValid

\* mutant: the settle flag is ignored
shouldSettleAlways(entry) == TRUE

\* if (opt.settle)
shouldSettle(entry) == entry.settle

\* mutant: a generic message replaces the one passed in
send402Generic(r, requirements, errorMessage) ==
    LET body == [x402Version |-> 2, accepts |-> requirements]
    IN  [r EXCEPT !.status = 402,
                  !.paymentRequired = toBase64(JSONstringify(body)),
                  !.body = [x402Version |-> 2, hasAccepts |-> TRUE, accepts |-> requirements,
                            error |-> IF Truthy(errorMessage) THEN "Payment required"
                                      ELSE Undefined,
                            content |-> ""]]

\* send402 (Express): sets PAYMENT-REQUIRED on res, status 402, writes the body
send402(r, requirements, errorMessage) ==
    LET body == [x402Version |-> 2, accepts |-> requirements]
    IN  [r EXCEPT !.status = 402,
                  !.paymentRequired = toBase64(JSONstringify(body)),
                  !.body = [x402Version |-> 2, hasAccepts |-> TRUE, accepts |-> requirements,
                            error |-> IF Truthy(errorMessage) THEN errorMessage ELSE Undefined,
                            content |-> ""]]

\* build402Response (Next.js): a new Response of the same shape
build402Response(resource, es, errorMessage) ==
    send402(BlankResponse, buildRequirements(resource, es), errorMessage)

\* mutant: the failure is reported as a server error
errorOnly500(r, message) ==
    [r EXCEPT !.status = 500, !.body = [EmptyBody EXCEPT !.error = message]]

\* res.status(402).json({ error }) / Response.json({ error }, { status: 402 })
errorOnly(r, message) ==
    [r EXCEPT !.status = 402, !.body = [EmptyBody EXCEPT !.error = message]]

\* headers["payment-signature"] ?? headers["x-payment"]
rawHeaderOf(rq) == IF rq.primary.str # "undefined" THEN rq.primary ELSE rq.legacy

\* !rawHeader
noRawHeader(h) == h.str \in {"undefined", "empty"}

\* paymentPayload.accepted?.network (a TypeError when paymentPayload is null)
acceptedNetwork(doc) == IF doc.kind = "object" /\ doc.accepted THEN doc.network ELSE Undefined

\* mutant: an unmatched payment falls back to the first entry
findMatchOrFirst(es, paymentNetwork) ==
    LET hits == {i \in 1..Len(es) : toCAIP2(es[i].network) = paymentNetwork}
    IN  IF hits = {} THEN 1 ELSE CHOOSE i \in hits : \A j \in hits : i <= j

\* entries.find(({ opt }) => toCAIP2(opt.network) === paymentNetwork): its index, 0 if none
findMatch(es, paymentNetwork) ==
    LET hits == {i \in 1..Len(es) : toCAIP2(es[i].network) = paymentNetwork}
    IN  IF hits = {} THEN 0 ELSE CHOOSE i \in hits : \A j \in hits : i <= j

\* settleResult.txHash ?? settleResult.transaction
txHashOf(doc) == Coalesce(doc.txHash, doc.transaction)

\* mutant: only errorReason is cited
settleErrorOfReason(doc) == doc.errorReason

\* settleResult.error ?? settleResult.errorReason
settleErrorOf(doc) == Coalesce(doc.error, doc.errorReason)

\* toBase64(JSON.stringify({ success: true, transaction: txHash, network: opt.network }))
paymentResponseOf(txHash, network) ==
    toBase64(JSONstringify([success |-> TRUE, transaction |-> txHash, network |-> network]))

Resource == "/premium"

-----------------------------------------------------------------------------
(* The gate: x402Handler (Express) and x402RouteHandler (Next.js) *)

GateInit ==
    /\ gateKind \in {"express", "nextjs"}
    /\ entries \in {resolveEntries(c) : c \in Configs}
    /\ gpc = "idle"
    /\ req = [primary |-> NoHeader, legacy |-> NoHeader]
    /\ paymentPayload = NullDoc
    /\ matched = 0
    /\ attempt = 0
    /\ sent = [verify |-> 0, settle |-> 0, apiKeys |-> {}]
    /\ verifyResult = NoResult(NullVerify)
    /\ settleResult = NoResult(NullSettle)
    /\ res = BlankResponse
    /\ writes = 0
    /\ nextCalled = 0
    /\ responseHeaders = NoPaymentResponse
    /\ handlerResponse = BlankResponse
    /\ promise = "pending"

\* the 402 challenge, written to res (Express) or built anew (Next.js)
challenge(errorMessage) ==
    IF gateKind = "express"
    THEN send402(res, buildRequirements(Resource, entries), errorMessage)
    ELSE build402Response(Resource, entries, errorMessage)

\* the error-only 402
failure(message) ==
    IF gateKind = "express" THEN errorOnly(res, message) ELSE errorOnly(BlankResponse, message)

\* the handler answers with response r and completes
Answer(r) ==
    /\ res' = r
    /\ writes' = writes + 1
    /\ gpc' = "done"
    /\ promise' = "fulfilled"

\* verify passed and settle passed or was skipped, the header (if any) is hdr:
\* Express sets it on res and calls next(); Next.js keeps it and awaits handler()
Authorize(hdr) ==
    /\ nextCalled' = nextCalled + 1
    /\ writes' = writes
    /\ IF gateKind = "express"
       THEN /\ res' = IF hdr.str # "undefined" THEN [res EXCEPT !.paymentResponse = hdr] ELSE res
            /\ responseHeaders' = responseHeaders
            /\ gpc' = "done"
            /\ promise' = "fulfilled"
       ELSE /\ res' = res
            /\ responseHeaders' = hdr
            /\ gpc' = "handler"
            /\ promise' = promise

\* A request arrives: the handler runs to its first await
x402Handler(h1, h2) ==
    /\ UNCHANGED <<clientVars, libVars>>
    /\ gpc = "idle"
    /\ req' = [primary |-> h1, legacy |-> h2]
    /\ LET rawHeader == rawHeaderOf([primary |-> h1, legacy |-> h2])
           parsed == JSONparse(fromBase64(rawHeader))
           paymentNetwork == acceptedNetwork(parsed.val)
           m == findMatch(entries, paymentNetwork)
       IN  IF noRawHeader(rawHeader)
           THEN /\ Answer(challenge(Undefined))
                /\ UNCHANGED <<paymentPayload, matched, attempt>>
           ELSE IF parsed.threw
           THEN /\ Answer(challenge("Invalid payment header"))
                /\ UNCHANGED <<paymentPayload, matched, attempt>>
           ELSE IF parsed.val.kind = "null"
           THEN \* paymentPayload.accepted on null: a TypeError outside every try
                /\ paymentPayload' = parsed.val
                /\ gpc' = "done"
                /\ promise' = "rejected"
                /\ UNCHANGED <<matched, attempt, res, writes>>
           ELSE IF m = 0
           THEN /\ paymentPayload' = parsed.val
                /\ Answer(challenge("No payment option found for network \""
                                    \o Str(paymentNetwork) \o "\""))
                /\ UNCHANGED <<matched, attempt>>
           ELSE /\ paymentPayload' = parsed.val
                /\ matched' = m
                /\ attempt' = 1
                /\ gpc' = "verifying"
                /\ UNCHANGED <<res, writes, promise>>
    /\ UNCHANGED <<gateKind, entries, sent, verifyResult, settleResult, nextCalled,
                   responseHeaders, handlerResponse>>

\* One HTTP exchange of facilitator.verify, and what the handler does when the
\* call settles
VerifyAttempt(o) ==
    /\ UNCHANGED <<clientVars, libVars>>
    /\ gpc = "verifying"
    /\ sent' = [sent EXCEPT !.verify = @ + 1,
                            !.apiKeys = @ \cup {apiKeyHeader(gateKind, entries[matched])}]
    /\ LET r == facilitatorAttempt("verify", o)
           d == withRetry(r, attempt)
       IN  CASE d = "retry" ->
                  /\ attempt' = attempt + 1
                  /\ UNCHANGED <<gpc, verifyResult, res, writes, nextCalled,
                                 responseHeaders, promise>>
             [] d = "throw" ->
                  /\ verifyResult' = [state |-> "rejected", doc |-> r.doc, err |-> r.err]
                  /\ Answer(failure("Payment processing failed: " \o r.err.message))
                  /\ UNCHANGED <<attempt, nextCalled, responseHeaders>>
             [] d = "return" ->
                  /\ verifyResult' = [state |-> "resolved", doc |-> r.doc, err |-> NoError]
                  /\ IF r.doc.kind = "null"
                     THEN /\ Answer(failure("Payment processing failed: "
                                            \o "Cannot read properties of null"))
                          /\ UNCHANGED <<attempt, nextCalled, responseHeaders>>
                     ELSE IF ~isValid(r.doc)
                     THEN /\ Answer(challenge(r.doc.invalidReason))
                          /\ UNCHANGED <<attempt, nextCalled, responseHeaders>>
                     ELSE IF shouldSettle(entries[matched])
                     THEN /\ gpc' = "settling"
                          /\ attempt' = 1
                          /\ UNCHANGED <<res, writes, nextCalled, responseHeaders, promise>>
                     ELSE /\ Authorize(NoPaymentResponse)
                          /\ UNCHANGED attempt
    /\ UNCHANGED <<gateKind, entries, req, paymentPayload, matched, settleResult,
                   handlerResponse>>

\* One HTTP exchange of facilitator.settle, and what the handler does when the
\* call settles
SettleAttempt(o) ==
    /\ UNCHANGED <<clientVars, libVars>>
    /\ gpc = "settling"
    /\ sent' = [sent EXCEPT !.settle = @ + 1,
                            !.apiKeys = @ \cup {apiKeyHeader(gateKind, entries[matched])}]
    /\ LET r == facilitatorAttempt("settle", o)
           d == withRetry(r, attempt)
           txHash == txHashOf(r.doc)
       IN  CASE d = "retry" ->
                  /\ attempt' = attempt + 1
                  /\ UNCHANGED <<gpc, settleResult, res, writes, nextCalled,
                                 responseHeaders, promise>>
             [] d = "throw" ->
                  /\ settleResult' = [state |-> "rejected", doc |-> r.doc, err |-> r.err]
                  /\ Answer(failure("Payment processing failed: " \o r.err.message))
                  /\ UNCHANGED <<attempt, nextCalled, responseHeaders>>
             [] d = "return" ->
                  /\ settleResult' = [state |-> "resolved", doc |-> r.doc, err |-> NoError]
                  /\ UNCHANGED attempt
                  /\ IF r.doc.kind = "null"
                     THEN /\ Answer(failure("Payment processing failed: "
                                            \o "Cannot read properties of null"))
                          /\ UNCHANGED <<nextCalled, responseHeaders>>
                     ELSE IF ~r.doc.success
                     THEN /\ Answer(failure("Payment settlement failed: "
                                            \o Str(settleErrorOf(r.doc))))
                          /\ UNCHANGED <<nextCalled, responseHeaders>>
                     ELSE Authorize(IF Truthy(txHash)
                                    THEN paymentResponseOf(txHash, entries[matched].network)
                                    ELSE NoPaymentResponse)
    /\ UNCHANGED <<gateKind, entries, req, paymentPayload, matched, verifyResult,
                   handlerResponse>>

\* Next.js: the downstream handler returns hr; PAYMENT-RESPONSE is merged into a
\* copy of its headers (Headers.set replaces a header of the same name)
HandlerReturns(hr) ==
    /\ UNCHANGED <<clientVars, libVars>>
    /\ gpc = "handler"
    /\ handlerResponse' = hr
    /\ res' = IF responseHeaders.str # "undefined"
              THEN [hr EXCEPT !.paymentResponse = responseHeaders]
              ELSE hr
    /\ gpc' = "done"
    /\ promise' = "fulfilled"
    /\ UNCHANGED <<gateKind, entries, req, paymentPayload, matched, attempt, sent,
                   verifyResult, settleResult, writes, nextCalled, responseHeaders>>

\* Next.js: the downstream handler throws inside the gate's try block
HandlerThrows ==
    /\ UNCHANGED <<clientVars, libVars>>
    /\ gpc = "handler"
    /\ Answer(failure("Payment processing failed: " \o "handler error"))
    /\ UNCHANGED <<gateKind, entries, req, paymentPayload, matched, attempt, sent,
                   verifyResult, settleResult, nextCalled, responseHeaders,
                   handlerResponse>>

GateNext ==
    \/ \E h1 \in HeaderValues, h2 \in LegacyValues : x402Handler(h1, h2)
    \/ \E o \in HttpOutcomes(VerifyDocs, NullVerify) : VerifyAttempt(o)
    \/ \E o \in HttpOutcomes(SettleDocs, NullSettle) : SettleAttempt(o)
    \/ \E hr \in HandlerResponses : HandlerReturns(hr)
    \/ HandlerThrows

-----------------------------------------------------------------------------
(* The values the resource server, the RPC node, the signer and the        *)
(* facilitator's /supported endpoint can supply to a client                *)

\* a requirement for a network the registry does not know
ForeignOffer ==
    [scheme |-> "exact", network |-> "polygon", maxAmountRequired |-> "1000000",
     resource |-> Resource, payTo |-> "0xcccc", asset |-> "0xdddd",
     maxTimeoutSeconds |-> 300, facilitator |-> Undefined]

Offer(network, amount) ==
    buildRequirement(Resource, "0xaaaa", amount,
                     SUPPORTED_NETWORKS[network].defaultAsset, network)

\* an offer whose facilitator hint is not the registry's address, or is left out
HintedOffer(network, amount, hint) == [Offer(network, amount) EXCEPT !.facilitator = hint]

\* `accepts` arrays of a 402 challenge
OfferLists ==
    {<<>>,
     <<ForeignOffer>>,
     <<HintedOffer("base-sepolia", "1000000", "0xh1nt")>>,
     <<Offer("base", "2000000"), Offer("base-sepolia", "1000000")>>,
     <<HintedOffer("radius-testnet", "1000000", Undefined)>>,
     <<Offer("solana", "2000000"), Offer("base", "1000000")>>,
     <<ForeignOffer, Offer("solana-devnet", "1000000")>>}

ChallengeDoc(accepts) == [x402Version |-> 2, accepts |-> accepts]

NotJsonChallenge == [json |-> FALSE, val |-> ChallengeDoc(<<>>)]

\* the JSON text `null`, and an object without accepts
JSONnull == [null |-> TRUE]

NoAccepts == [x402Version |-> 2]

\* PAYMENT-RESPONSE headers a paid response can carry
PaymentResponses ==
    {NoPaymentResponse, OwnPaymentResponse,
     paymentResponseOf("0xabc", "base-sepolia"),
     toBase64(JSONstringify([success |-> TRUE, transaction |-> Undefined,
                             network |-> Undefined])),
     toBase64(JSONstringify([success |-> TRUE, transaction |-> "0xabc",
                             network |-> ""]))}

\* no Response at all (the fetch threw)
NoResponse ==
    [status |-> 0, paymentRequired |-> NoChallenge, body |-> NotJsonChallenge,
     paymentResponse |-> NoPaymentResponse, tok |-> FALSE]

\* Responses of the resource server.  tok: the body text contains one of
\* withRetry's retryable tokens.
ServerResponses ==
    {[status |-> 200, paymentRequired |-> NoChallenge, body |-> NotJsonChallenge,
      paymentResponse |-> pr, tok |-> FALSE] : pr \in PaymentResponses}
    \cup {[status |-> st, paymentRequired |-> NoChallenge, body |-> NotJsonChallenge,
           paymentResponse |-> NoPaymentResponse, tok |-> FALSE] : st \in {404, 500}}
    \cup {[status |-> 402, paymentRequired |-> toBase64(JSONstringify(ChallengeDoc(a))),
           body |-> JSONstringify(ChallengeDoc(<<Offer("base-sepolia", "1000000")>>)),
           paymentResponse |-> NoPaymentResponse, tok |-> FALSE] : a \in OfferLists}
    \cup {[status |-> 402, paymentRequired |-> toBase64(JSONstringify(d)),
           body |-> JSONstringify(ChallengeDoc(<<Offer("base-sepolia", "1000000")>>)),
           paymentResponse |-> NoPaymentResponse, tok |-> FALSE] : d \in {JSONnull, NoAccepts}}
    \cup {[status |-> 402, paymentRequired |-> h,
           body |-> JSONstringify(ChallengeDoc(<<Offer("base-sepolia", "1000000")>>)),
           paymentResponse |-> NoPaymentResponse, tok |-> FALSE] :
            h \in {NoChallenge, [str |-> "plain", text |-> NotJsonChallenge]}}
    \cup {[status |-> 402, paymentRequired |-> NoChallenge, body |-> NotJsonChallenge,
           paymentResponse |-> NoPaymentResponse, tok |-> t] : t \in BOOLEAN}

\* What one fetch of the resource can come to
ResourceOutcomes ==
    {[kind |-> "response", resp |-> r, tok |-> FALSE] : r \in ServerResponses}
    \cup {[kind |-> "neterr", resp |-> NoResponse, tok |-> t] : t \in BOOLEAN}

\* What one eth_call can come to (value: the uint256 result)
RpcOutcomes ==
    {[kind |-> "result", value |-> v, tok |-> FALSE] : v \in {0, 1000000, 5000000}}
    \cup {[kind |-> "neterr", value |-> 0, tok |-> t] : t \in BOOLEAN}
    \cup {[kind |-> k, value |-> 0, tok |-> FALSE] : k \in {"rpcerror", "status"}}

\* What GET /supported can come to: the first signer listed under the requested
\* CAIP-2 key (exact) and under the namespace wildcard
SupportedOutcomes ==
    {[kind |-> "json", exact |-> e, wildcard |-> w] :
        e \in {Undefined, "0xfac1"}, w \in {Undefined, "0xfac2"}}
    \cup {[kind |-> k, exact |-> Undefined, wildcard |-> Undefined] :
            k \in {"status", "neterr", "nonjson"}}

\* X402ClientOptions / SolanaX402ClientOptions of the model
ClientOptions ==
    {[network |-> Undefined, skipBalanceCheck |-> FALSE, rpcUrl |-> Undefined],
     [network |-> "base", skipBalanceCheck |-> TRUE, rpcUrl |-> Undefined],
     [network |-> Undefined, skipBalanceCheck |-> FALSE, rpcUrl |-> "https://rpc.example"]}

NoRequirement ==
    [scheme |-> "", network |-> "", maxAmountRequired |-> "", resource |-> "",
     payTo |-> "", asset |-> "", maxTimeoutSeconds |-> 0, facilitator |-> Undefined]

NoPayload ==
    [method |-> "none", network |-> "", scheme |-> "", txHash |-> Undefined,
     spender |-> Undefined, amount |-> ""]

NoPaymentResult ==
    [success |-> FALSE, txHash |-> Undefined, amountPaid |-> "", network |-> ""]

Pending ==
    [state |-> "pending", response |-> NoResponse, hasPaymentResult |-> FALSE,
     paymentResult |-> NoPaymentResult, err |-> NoError]

NoCalls ==
    [resource |-> 0, paid |-> 0, rpc |-> 0, sign |-> 0, supported |-> 0,
     verify |-> 0, settle |-> 0]

EmptyCache == [has |-> FALSE, signer |-> Undefined]

\* getTokenBalance has not returned
NoBalance == [read |-> FALSE, value |-> 0]

-----------------------------------------------------------------------------
(* The clients' helpers *)

\* BigInt(str) of the decimal strings of the model
BigInt(str) ==
    CASE str = "1000000" -> 1000000
      [] str = "2000000" -> 2000000
      [] OTHER -> 0

\* a transport error thrown by fetch itself
transportError(tok) ==
    IF tok THEN [name |-> "Error", message |-> "read ECONNRESET", tokens |-> {"ECONNRESET"}]
    ELSE [name |-> "TypeError", message |-> "fetch failed", tokens |-> {}]

\* parseBody's error (the EVM client appends the first 200 characters of the body)
notValidJson(kind, url) ==
    [name |-> "Error", tokens |-> {},
     message |-> "x402: API at " \o url \o " returned 402 but body is not valid JSON."
                 \o (IF kind = "evm" THEN " Received: not json" ELSE "")]

\* parsePaymentRequirements' error
missingAccepts(url) ==
    [name |-> "Error", tokens |-> {},
     message |-> "x402: 402 response from " \o url \o " missing valid \"accepts\" array"]

\* parsePaymentRequirements: the PAYMENT-REQUIRED header first, the body when
\* the header is absent, empty or does not parse; `parsed.accepts` on null is a
\* TypeError; a missing or empty accepts throws
parsePaymentRequirements(kind, body, headers, url) ==
    LET header == headers.paymentRequired
        fromHeader == JSONparse(fromBase64(header))
        useHeader == header.str \notin {"undefined", "empty"} /\ ~fromHeader.threw
        parsed == IF useHeader THEN fromHeader ELSE JSONparse(body)
    IN  IF parsed.threw
        THEN [threw |-> TRUE, accepts |-> <<>>, err |-> notValidJson(kind, url)]
        ELSE IF parsed.val = JSONnull
        THEN [threw |-> TRUE, accepts |-> <<>>,
              err |-> [name |-> "TypeError", tokens |-> {},
                       message |-> "Cannot read properties of null (reading 'accepts')"]]
        ELSE IF "accepts" \notin DOMAIN parsed.val
        THEN [threw |-> TRUE, accepts |-> <<>>, err |-> missingAccepts(url)]
        ELSE IF Len(parsed.val.accepts) = 0
        THEN [threw |-> TRUE, accepts |-> <<>>, err |-> missingAccepts(url)]
        ELSE [threw |-> FALSE, accepts |-> parsed.val.accepts, err |-> NoError]

\* Amounts beyond the machine integers are kept as their decimal digits, a
\* sequence of one-character strings without leading zeros.
DigitValue ==
    [c \in {"0", "1", "2", "3", "4", "5", "6", "7", "8", "9"} |->
        CASE c = "0" -> 0 [] c = "1" -> 1 [] c = "2" -> 2 [] c = "3" -> 3 [] c = "4" -> 4
          [] c = "5" -> 5 [] c = "6" -> 6 [] c = "7" -> 7 [] c = "8" -> 8 [] c = "9" -> 9]

Zeros(n) == [i \in 1..n |-> "0"]

\* the characters of the decimal strings of the model
chars(str) ==
    CASE str = "1000000" -> <<"1">> \o Zeros(6)
      [] str = "2000000" -> <<"2">> \o Zeros(6)
      [] str = "2000000000" -> <<"2">> \o Zeros(9)
      [] str = "1000000000000000000" -> <<"1">> \o Zeros(18)
      [] str = "0" -> <<"0">>
      [] str = "2" -> <<"2">>
      [] str = "1.5" -> <<"1", ".", "5">>
      [] str = "0.0000015" -> <<"0", ".">> \o Zeros(5) \o <<"1", "5">>
      [] OTHER -> <<>>

\* a <= b for two bigints given by their digits
bigLE(a, b) ==
    \/ Len(a) < Len(b)
    \/ /\ Len(a) = Len(b)
       /\ \/ a = b
          \/ \E i \in 1..Len(a) :
                /\ \A j \in 1..(i - 1) : a[j] = b[j]
                /\ DigitValue[a[i]] < DigitValue[b[i]]

\* text.replace(/^0+(?=\d)/, ""): leading zeros go, the last digit stays
RECURSIVE stripLeadingZeros(_)
stripLeadingZeros(text) ==
    IF Len(text) > 1 /\ Head(text) = "0" THEN stripLeadingZeros(Tail(text)) ELSE text

\* usdAmount.split("."): what precedes the first point, and what lies between
\* the first and the second (Undefined when there is no point)
split(text) ==
    LET points == {i \in 1..Len(text) : text[i] = "."}
        first == IF points = {} THEN Len(text) + 1
                 ELSE CHOOSE i \in points : \A j \in points : i <= j
        rest == SubSeq(text, first + 1, Len(text))
        more == {i \in 1..Len(rest) : rest[i] = "."}
        second == IF more = {} THEN Len(rest) + 1
                  ELSE CHOOSE i \in more : \A j \in more : i <= j
    IN  [whole |-> SubSeq(text, 1, first - 1), hasFraction |-> points # {},
         fraction |-> SubSeq(rest, 1, second - 1)]

\* usdToAtomic: the digits of the bigint
usdToAtomic(usdAmount, decimals) ==
    LET parts == split(chars(usdAmount))
        given == IF parts.hasFraction THEN parts.fraction ELSE <<>>
        fractional == IF Len(given) > decimals THEN SubSeq(given, 1, decimals)
                      ELSE given \o Zeros(decimals - Len(given))
        joined == stripLeadingZeros(parts.whole \o fractional)
    IN  IF joined = <<>> THEN <<"0">> ELSE joined

\* the first element with the smallest amount (Array.prototype.sort is stable)
cheapest(filtered) ==
    LET amount(i) == chars(filtered[i].maxAmountRequired)
        i == CHOOSE i \in 1..Len(filtered) :
                 /\ \A j \in 1..Len(filtered) : bigLE(amount(i), amount(j))
                 /\ \A j \in 1..(i - 1) : ~bigLE(amount(j), amount(i))
    IN  filtered[i]

\* r.network.includes("sepolia") || r.network.includes("testnet")
isTestnet(r) == r.network \in {"base-sepolia", "radius-testnet"}

\* r.network.includes("devnet")
isDevnet(r) == r.network \in {"solana-devnet"}

\* selectRequirement of either client: [found, requirement]
selectRequirement(kind, requirements, preferredNetwork, maxAmount) ==
    LET supportedBy(r) == IF kind = "evm" THEN IsSupported(r.network)
                          ELSE r.network \in {"solana", "solana-devnet"}
        supported == SelectSeq(requirements, supportedBy)
        affordable(r) == bigLE(chars(r.maxAmountRequired),
                               usdToAtomic(maxAmount, SUPPORTED_NETWORKS[r.network].decimals))
        filtered == IF Truthy(maxAmount) THEN SelectSeq(supported, affordable) ELSE supported
        isPreferred(r) == r.network = preferredNetwork
        safe(r) == IF kind = "evm" THEN isTestnet(r) ELSE isDevnet(r)
    IN  IF Len(filtered) = 0 THEN [found |-> FALSE, requirement |-> NoRequirement]
        ELSE IF Truthy(preferredNetwork) /\ Len(SelectSeq(filtered, isPreferred)) > 0
        THEN [found |-> TRUE, requirement |-> Head(SelectSeq(filtered, isPreferred))]
        ELSE IF Len(SelectSeq(filtered, safe)) > 0
        THEN [found |-> TRUE, requirement |-> Head(SelectSeq(filtered, safe))]
        ELSE [found |-> TRUE, requirement |-> cheapest(filtered)]

\* mutant: the radius networks are not taken for permit-family networks
isSbcNetworkBaseOnly(network) == network \in {"base", "base-sepolia"}

\* buildPaymentPayload's isSbcNetwork
isSbcNetwork(network) == network \in {"base", "base-sepolia", "radius", "radius-testnet"}

\* the RPC endpoint signPermit uses: rpcUrlOverride ?? config.rpcUrl
permitRpcUrl(opts, network) == Coalesce(opts.rpcUrl, SUPPORTED_NETWORKS[network].rpcUrl)

\* the balance check runs: !skipBalanceCheck && (networkConfig?.rpcUrl || rpcUrl)
checksBalance(opts, network) ==
    /\ ~opts.skipBalanceCheck
    /\ (Truthy(SUPPORTED_NETWORKS[network].rpcUrl) \/ Truthy(opts.rpcUrl))

\* mutant: the offer's hint is taken before the discovered signer
facilitatorAddressHintFirst(facilitatorSigner, requirement) ==
    Coalesce(requirement.facilitator,
             Coalesce(facilitatorSigner,
                      SUPPORTED_NETWORKS[requirement.network].facilitatorAddress))

\* facilitatorSignerAddress ?? requirement.facilitator ?? networkConfig?.facilitatorAddress
facilitatorAddress(facilitatorSigner, requirement) ==
    Coalesce(facilitatorSigner,
             Coalesce(requirement.facilitator,
                      SUPPORTED_NETWORKS[requirement.network].facilitatorAddress))

\* buildPaymentPayload up to its first await: signPermit's nonce call, or the
\* SBC Payment fallback when signPermit throws for want of an RPC URL, or
\* EIP-3009 for every other network
startBuild(opts, requirement) ==
    IF isSbcNetwork(requirement.network)
    THEN IF Truthy(permitRpcUrl(opts, requirement.network)) THEN "nonce" ELSE "signSbc"
    ELSE "sign3009"

\* result.txHash ?? result.transaction
extractTxHash(result) == Coalesce(result.txHash, result.transaction)

\* mutant: whatever a decodable header holds replaces the defaults
paymentResultOfHeader(paidResponse, requirement, txHash) ==
    LET base == [success |-> (paidResponse.status >= 200 /\ paidResponse.status <= 299),
                 txHash |-> txHash, amountPaid |-> requirement.maxAmountRequired,
                 network |-> requirement.network]
        header == paidResponse.paymentResponse
        parsed == JSONparse(fromBase64(header))
    IN  IF header.str \in {"undefined", "empty"} \/ parsed.threw THEN base
        ELSE [base EXCEPT !.txHash = parsed.val.transaction,
                          !.network = parsed.val.network]

\* the PaymentResult attached to the paid response
paymentResultOf(paidResponse, requirement, txHash) ==
    LET base == [success |-> (paidResponse.status >= 200 /\ paidResponse.status <= 299),
                 txHash |-> txHash, amountPaid |-> requirement.maxAmountRequired,
                 network |-> requirement.network]
        header == paidResponse.paymentResponse
        parsed == JSONparse(fromBase64(header))
    IN  IF header.str \in {"undefined", "empty"} \/ parsed.threw THEN base
        ELSE [base EXCEPT !.txHash = IF Truthy(parsed.val.transaction)
                                     THEN parsed.val.transaction ELSE @,
                          !.network = IF Truthy(parsed.val.network)
                                      THEN parsed.val.network ELSE @]

\* mutant: every error status is taken for a payment challenge
isPaymentRequiredOrError(response) == response.status >= 400

\* initialResponse.status !== 402 is the short-circuit
isPaymentRequired(response) == response.status = 402

\* mutant: the EVM client verifies and settles too
afterSignAlwaysVerify(kind) == "verify"

\* what follows a signed payload: the Solana client calls facilitator.verify
\* (and then settle), the EVM client goes straight to the paid request
afterSign(kind) == IF kind = "solana" THEN "verify" ELSE "paid"

\* mutant: a 402 answer to the paid request is returned like any other
resourceAttemptAny(kind, o, paid) ==
    IF o.kind = "neterr"
    THEN [ok |-> FALSE, resp |-> o.resp, err |-> transportError(o.tok)]
    ELSE [ok |-> TRUE, resp |-> o.resp, err |-> NoError]

\* one pass through the function a client hands to withRetry for the resource:
\* the paid request turns a 402 into an Error (the EVM client appends the body)
resourceAttempt(kind, o, paid) ==
    IF o.kind = "neterr"
    THEN [ok |-> FALSE, resp |-> o.resp, err |-> transportError(o.tok)]
    ELSE IF paid /\ o.resp.status = 402
    THEN [ok |-> FALSE, resp |-> o.resp,
          err |-> IF kind = "evm"
                  THEN [name |-> "Error",
                        message |-> "Received 402 after payment: "
                                    \o (IF o.resp.tok THEN "upstream ETIMEDOUT" ELSE "{}"),
                        tokens |-> IF o.resp.tok THEN {"ETIMEDOUT"} ELSE {}]
                  ELSE [name |-> "Error", message |-> "Received 402 after payment",
                        tokens |-> {}]]
    ELSE [ok |-> TRUE, resp |-> o.resp, err |-> NoError]

\* one pass through the function getTokenBalance / getPermitNonce hand to withRetry
rpcAttempt(what, o) ==
    CASE o.kind = "result" -> [ok |-> TRUE, value |-> o.value, err |-> NoError]
      [] o.kind = "status" ->
            [ok |-> FALSE, value |-> 0,
             err |-> [name |-> "Error", message |-> "RPC request failed: 500", tokens |-> {}]]
      [] o.kind = "rpcerror" ->
            [ok |-> FALSE, value |-> 0,
             err |-> [name |-> IF what = "nonce" THEN "SigningError" ELSE "Error",
                      message |-> (IF what = "nonce" THEN "Failed to fetch permit nonce: "
                                   ELSE "Failed to fetch token balance: ")
                                  \o (IF o.tok THEN "ETIMEDOUT" ELSE "execution reverted"),
                      tokens |-> IF o.tok THEN {"ETIMEDOUT"} ELSE {}]]
      [] o.kind = "neterr" -> [ok |-> FALSE, value |-> 0, err |-> transportError(o.tok)]

\* JSON.stringify's argument for the payment header: the PaymentPayload
\* { accepted: { network, scheme }, payload } (method, spender: what was signed)
paymentPayloadOf(payload) ==
    [kind |-> "object", accepted |-> TRUE, network |-> payload.network,
     scheme |-> payload.scheme, method |-> payload.method, spender |-> payload.spender,
     amount |-> payload.amount]

\* mutant: the legacy alias is not sent
paidRequestHeadersPrimaryOnly(payload) ==
    [primary |-> toBase64(JSONstringify(paymentPayloadOf(payload))), legacy |-> NoHeader]

\* the headers added to the paid request: PAYMENT-SIGNATURE and X-PAYMENT
paidRequestHeaders(payload) ==
    LET paymentHeader == toBase64(JSONstringify(paymentPayloadOf(payload)))
    IN  [primary |-> paymentHeader, legacy |-> paymentHeader]

\* new InsufficientBalanceError(balance, required)
InsufficientBalanceError(bal, required) ==
    [name |-> "InsufficientBalanceError", tokens |-> {},
     message |-> "Insufficient balance. Required: " \o required \o ", Available: " \o bal,
     balance |-> bal, required |-> required]

\* mutant: a balance equal to the required amount is refused too
insufficientOrEqual(bal, requirement) == bal <= BigInt(requirement.maxAmountRequired)

\* balance < BigInt(selected.maxAmountRequired)
insufficient(bal, requirement) == bal < BigInt(requirement.maxAmountRequired)

\* how buildPaymentPayload's signPermit stands when the flow moves from `now`
\* to `next`: called (its nonce read is under way), thrown (the fallback is
\* next: no RPC URL, the nonce read failed, or the signer refused) or returned
signPermitOutcome(now, next, current) ==
    CASE next = "nonce" -> "attempted"
      [] next = "signSbc" -> "failed"
      [] now = "signPermit" -> "signed"
      [] OTHER -> current

\* after the balance check: getSignerForNetwork answers from the cache without
\* a request, or asks /supported
afterBalance(opts, requirement, cache) ==
    IF cache.has THEN startBuild(opts, requirement) ELSE "discover"

-----------------------------------------------------------------------------
(* The clients: createX402Client(...).fetch and                            *)
(* createSolanaX402Client(...).fetch                                       *)

ClientInit ==
    /\ clientKind \in {"evm", "solana"}
    /\ options \in ClientOptions
    /\ fetches = 0
    /\ requestOptions = [preferredNetwork |-> Undefined]
    /\ cpc = "idle"
    /\ cattempt = 0
    /\ lastError = NoError
    /\ calls = NoCalls
    /\ initialResponse = NoResponse
    /\ selected = NoRequirement
    /\ signerCache = EmptyCache
    /\ built = NoPayload
    /\ paidHeaders = [primary |-> NoHeader, legacy |-> NoHeader]
    /\ balance = NoBalance
    /\ permit = "none"
    /\ outcome = Pending

\* client.fetch throws err
Throw(err) ==
    /\ outcome' = [Pending EXCEPT !.state = "threw", !.err = err]
    /\ cpc' = "done"

\* client.fetch returns response (with paymentResult when has)
Return(response, has, paymentResult) ==
    /\ outcome' = [state |-> "returned", response |-> response, hasPaymentResult |-> has,
                   paymentResult |-> paymentResult, err |-> NoError]
    /\ cpc' = "done"

\* client.fetch(url, { preferredNetwork }) is called
fetch(preferredNetwork) ==
    /\ UNCHANGED <<gateVars, libVars>>
    /\ cpc \in {"idle", "done"}
    /\ fetches < MaxFetches
    /\ fetches' = fetches + 1
    /\ requestOptions' = [preferredNetwork |-> preferredNetwork]
    /\ cpc' = "initial"
    /\ cattempt' = 1
    /\ lastError' = NoError
    /\ calls' = NoCalls
    /\ initialResponse' = NoResponse
    /\ selected' = NoRequirement
    /\ built' = NoPayload
    /\ paidHeaders' = [primary |-> NoHeader, legacy |-> NoHeader]
    /\ balance' = NoBalance
    /\ permit' = "none"
    /\ outcome' = Pending
    /\ UNCHANGED <<clientKind, options, signerCache>>

\* Step 1, one attempt of the initial request, and Step 2 when it returns 402
InitialRequest(o) ==
    /\ UNCHANGED <<gateVars, libVars>>
    /\ cpc = "initial"
    /\ calls' = [calls EXCEPT !.resource = @ + 1]
    /\ LET r == resourceAttempt(clientKind, o, FALSE)
           d == withRetry(r, cattempt)
           parsed == parsePaymentRequirements(clientKind, r.resp.body, r.resp, Resource)
           \* the requests of the model pass no maxAmount
           sel == selectRequirement(clientKind, parsed.accepts,
                                    Coalesce(requestOptions.preferredNetwork, options.network),
                                    Undefined)
       IN  CASE d = "retry" ->
                  /\ cattempt' = cattempt + 1
                  /\ lastError' = r.err
                  /\ UNCHANGED <<cpc, initialResponse, selected, outcome>>
             [] d = "throw" ->
                  /\ Throw(r.err)
                  /\ lastError' = r.err
                  /\ UNCHANGED <<cattempt, initialResponse, selected>>
             [] d = "return" ->
                  /\ initialResponse' = r.resp
                  /\ IF ~isPaymentRequired(r.resp)
                     THEN /\ Return(r.resp, FALSE, NoPaymentResult)
                          /\ UNCHANGED <<lastError, cattempt, selected>>
                     ELSE IF parsed.threw
                     THEN /\ Throw(parsed.err)
                          /\ UNCHANGED <<lastError, cattempt, selected>>
                     ELSE IF ~sel.found
                     THEN /\ Throw([name |-> "Error", tokens |-> {},
                                    message |-> "No suitable payment option found"])
                          /\ UNCHANGED <<lastError, cattempt, selected>>
                     ELSE /\ selected' = sel.requirement
                          /\ cattempt' = 1
                          /\ lastError' = NoError
                          /\ outcome' = outcome
                          /\ cpc' = IF clientKind = "solana" THEN "signSolana"
                                    ELSE IF checksBalance(options, sel.requirement.network)
                                    THEN "balance"
                                    ELSE afterBalance(options, sel.requirement, signerCache)
    /\ permit' = signPermitOutcome(cpc, cpc', permit)
    /\ UNCHANGED <<balance, paidHeaders, clientKind, options, fetches, requestOptions, signerCache, built>>

\* Step 3 (EVM): one attempt of the balanceOf eth_call
getTokenBalance(o) ==
    /\ UNCHANGED <<gateVars, libVars>>
    /\ cpc = "balance"
    /\ calls' = [calls EXCEPT !.rpc = @ + 1]
    /\ LET r == rpcAttempt("balance", o)
           d == withRetry(r, cattempt)
       IN  CASE d = "retry" ->
                  /\ cattempt' = cattempt + 1
                  /\ lastError' = r.err
                  /\ UNCHANGED <<cpc, outcome, balance>>
             [] d = "throw" ->
                  /\ Throw(r.err)
                  /\ lastError' = r.err
                  /\ UNCHANGED <<cattempt, balance>>
             [] d = "return" ->
                  /\ balance' = [read |-> TRUE, value |-> r.value]
                  /\ IF insufficient(r.value, selected)
                     THEN /\ Throw(InsufficientBalanceError(ToString(r.value),
                                                            selected.maxAmountRequired))
                          /\ UNCHANGED <<cattempt, lastError>>
                     ELSE /\ cpc' = afterBalance(options, selected, signerCache)
                          /\ cattempt' = 1
                          /\ lastError' = NoError
                          /\ outcome' = outcome
    /\ permit' = signPermitOutcome(cpc, cpc', permit)
    /\ UNCHANGED <<paidHeaders, clientKind, options, fetches, requestOptions, initialResponse, selected,
                   signerCache, built>>

\* Step 4 (EVM): GET /supported; every failure is cached as undefined
getSignerForNetwork(o) ==
    /\ UNCHANGED <<gateVars, libVars>>
    /\ cpc = "discover"
    /\ calls' = [calls EXCEPT !.supported = @ + 1]
    /\ signerCache' = [has |-> TRUE,
                       signer |-> IF o.kind = "json" THEN Coalesce(o.exact, o.wildcard)
                                  ELSE Undefined]
    /\ cpc' = startBuild(options, selected)
    /\ cattempt' = 1
    /\ lastError' = NoError
    /\ permit' = signPermitOutcome(cpc, cpc', permit)
    /\ UNCHANGED <<balance, paidHeaders, clientKind, options, fetches, requestOptions, initialResponse, selected,
                   built, outcome>>

\* signPermit: one attempt of the nonces eth_call; when it throws,
\* buildPaymentPayload falls back to signSbcPayment
getPermitNonce(o) ==
    /\ UNCHANGED <<gateVars, libVars>>
    /\ cpc = "nonce"
    /\ calls' = [calls EXCEPT !.rpc = @ + 1]
    /\ LET r == rpcAttempt("nonce", o)
           d == withRetry(r, cattempt)
       IN  CASE d = "retry" -> /\ cattempt' = cattempt + 1
                               /\ lastError' = r.err
                               /\ cpc' = cpc
             [] d = "throw" -> /\ cpc' = "signSbc"
                               /\ cattempt' = cattempt
                               /\ lastError' = r.err
             [] d = "return" -> /\ cpc' = "signPermit"
                                /\ cattempt' = cattempt
                                /\ lastError' = lastError
    /\ permit' = signPermitOutcome(cpc, cpc', permit)
    /\ UNCHANGED <<balance, paidHeaders, clientKind, options, fetches, requestOptions, initialResponse, selected,
                   signerCache, built, outcome>>

\* the payload a signature completes
payloadOf(method, requirement, facilitatorSigner) ==
    [method |-> method, network |-> toCAIP2(requirement.network),
     scheme |-> requirement.scheme, txHash |-> Undefined,
     amount |-> requirement.maxAmountRequired,
     spender |-> IF method \in {"permit", "sbc"}
                 THEN facilitatorAddress(facilitatorSigner, requirement)
                 ELSE Undefined]

\* signer.signTypedData (EVM) / signer.sign (Solana) answers or throws
sign(ok) ==
    /\ UNCHANGED <<gateVars, libVars>>
    /\ cpc \in {"signPermit", "signSbc", "sign3009", "signSolana"}
    /\ calls' = [calls EXCEPT !.sign = @ + 1]
    /\ LET method == CASE cpc = "signPermit" -> "permit"
                       [] cpc = "signSbc" -> "sbc"
                       [] cpc = "sign3009" -> "eip3009"
                       [] cpc = "signSolana" -> "solana"
       IN  IF ok
           THEN /\ built' = payloadOf(method, selected, signerCache.signer)
                /\ cpc' = afterSign(clientKind)
                /\ cattempt' = 1
                /\ lastError' = NoError
                /\ outcome' = outcome
           ELSE IF cpc = "signPermit"
           THEN /\ cpc' = "signSbc"
                /\ UNCHANGED <<lastError, built, cattempt, outcome>>
           ELSE /\ Throw([name |-> "Error", message |-> "User rejected the request",
                          tokens |-> {}])
                /\ UNCHANGED <<lastError, built, cattempt>>
    /\ permit' = signPermitOutcome(cpc, cpc', permit)
    /\ UNCHANGED <<balance, paidHeaders, clientKind, options, fetches, requestOptions, initialResponse, selected,
                   signerCache>>

\* Step 4 (Solana): one HTTP exchange of facilitator.verify
verify(o) ==
    /\ UNCHANGED <<gateVars, libVars>>
    /\ cpc = "verify"
    /\ calls' = [calls EXCEPT !.verify = @ + 1]
    /\ LET r == facilitatorAttempt("verify", o)
           d == withRetry(r, cattempt)
       IN  CASE d = "retry" ->
                  /\ cattempt' = cattempt + 1
                  /\ lastError' = r.err
                  /\ UNCHANGED <<cpc, outcome>>
             [] d = "throw" ->
                  /\ Throw(r.err)
                  /\ lastError' = r.err
                  /\ UNCHANGED cattempt
             [] d = "return" ->
                  IF r.doc.kind = "null"
                  THEN /\ Throw([name |-> "TypeError", tokens |-> {},
                                 message |-> "Cannot read properties of null"])
                       /\ UNCHANGED <<cattempt, lastError>>
                  ELSE IF ~isValid(r.doc)
                  THEN /\ Throw([name |-> "Error", tokens |-> {},
                                 message |-> "Payment verification failed: "
                                             \o Str(r.doc.invalidReason)])
                       /\ UNCHANGED <<cattempt, lastError>>
                  ELSE /\ cpc' = "settle"
                       /\ cattempt' = 1
                       /\ lastError' = NoError
                       /\ outcome' = outcome
    /\ UNCHANGED <<permit, balance, paidHeaders, clientKind, options, fetches, requestOptions, initialResponse, selected,
                   signerCache, built>>

\* Step 5 (Solana): one HTTP exchange of facilitator.settle
settle(o) ==
    /\ UNCHANGED <<gateVars, libVars>>
    /\ cpc = "settle"
    /\ calls' = [calls EXCEPT !.settle = @ + 1]
    /\ LET r == facilitatorAttempt("settle", o)
           d == withRetry(r, cattempt)
       IN  CASE d = "retry" ->
                  /\ cattempt' = cattempt + 1
                  /\ lastError' = r.err
                  /\ UNCHANGED <<cpc, outcome, built>>
             [] d = "throw" ->
                  /\ Throw(r.err)
                  /\ lastError' = r.err
                  /\ UNCHANGED <<cattempt, built>>
             [] d = "return" ->
                  IF r.doc.kind = "null"
                  THEN /\ Throw([name |-> "TypeError", tokens |-> {},
                                 message |-> "Cannot read properties of null"])
                       /\ UNCHANGED <<lastError, cattempt, built>>
                  ELSE IF ~r.doc.success
                  THEN /\ Throw([name |-> "Error", tokens |-> {},
                                 message |-> "Payment settlement failed: "
                                             \o Str(settleErrorOf(r.doc))])
                       /\ UNCHANGED <<lastError, cattempt, built>>
                  ELSE /\ built' = [built EXCEPT !.txHash = extractTxHash(r.doc)]
                       /\ cpc' = "paid"
                       /\ cattempt' = 1
                       /\ lastError' = NoError
                       /\ outcome' = outcome
    /\ UNCHANGED <<permit, balance, paidHeaders, clientKind, options, fetches, requestOptions, initialResponse, selected,
                   signerCache>>

\* the re-fetch with PAYMENT-SIGNATURE and X-PAYMENT set, one attempt, and the
\* PaymentResult when it returns
PaidRequest(o) ==
    /\ UNCHANGED <<gateVars, libVars>>
    /\ cpc = "paid"
    /\ calls' = [calls EXCEPT !.paid = @ + 1]
    /\ paidHeaders' = paidRequestHeaders(built)
    /\ UNCHANGED <<balance, permit>>
    /\ LET r == resourceAttempt(clientKind, o, TRUE)
           d == withRetry(r, cattempt)
       IN  CASE d = "retry" ->
                  /\ cattempt' = cattempt + 1
                  /\ lastError' = r.err
                  /\ UNCHANGED <<cpc, outcome>>
             [] d = "throw" ->
                  /\ Throw(r.err)
                  /\ lastError' = r.err
                  /\ UNCHANGED cattempt
             [] d = "return" ->
                  /\ Return(r.resp, TRUE, paymentResultOf(r.resp, selected, built.txHash))
                  /\ UNCHANGED <<cattempt, lastError>>
    /\ UNCHANGED <<clientKind, options, fetches, requestOptions, initialResponse, selected,
                   signerCache, built>>

ClientNext ==
    \/ \E preferredNetwork \in {Undefined, "solana"} : fetch(preferredNetwork)
    \/ \E o \in ResourceOutcomes : InitialRequest(o)
    \/ \E o \in RpcOutcomes : getTokenBalance(o)
    \/ \E o \in SupportedOutcomes : getSignerForNetwork(o)
    \/ \E o \in RpcOutcomes : getPermitNonce(o)
    \/ \E ok \in BOOLEAN : sign(ok)
    \/ \E o \in HttpOutcomes(VerifyDocs, NullVerify) : verify(o)
    \/ \E o \in HttpOutcomes(SettleDocs, NullSettle) : settle(o)
    \/ \E o \in ResourceOutcomes : PaidRequest(o)

-----------------------------------------------------------------------------
(* Specifications *)

\* the gate before any request
GateIdle ==
    /\ GateInit
    /\ gateKind = "express"
    /\ entries = resolveEntries(<<CHOOSE opt \in EntryOptions : opt.settle = "undefined">>)

\* a client before any fetch
ClientIdle ==
    /\ ClientInit
    /\ clientKind = "evm"
    /\ options = [network |-> Undefined, skipBalanceCheck |-> FALSE, rpcUrl |-> Undefined]

\* selectRequirement not called
NoSelectorInput ==
    [kind |-> "", requirements |-> <<>>, preferredNetwork |-> Undefined,
     maxAmount |-> Undefined]

NotSelected == [called |-> FALSE, found |-> FALSE, requirement |-> NoRequirement]

SelectorIdle ==
    /\ selectorInput = NoSelectorInput
    /\ selectorResult = NotSelected

\* withRetry not called
RetryIdle ==
    /\ retryOpts = DEFAULT_OPTIONS
    /\ loop = [pc |-> "idle", attempt |-> 0, delay |-> 0, lastError |-> NoError]
    /\ log = [invocations |-> 0, sleeps |-> <<>>, state |-> "pending", err |-> NoError]

\* new FacilitatorClient(given): the constructor
newFacilitatorClient(given) ==
    [overrideUrl |-> IF "facilitatorUrl" \in DOMAIN given THEN given.facilitatorUrl ELSE Undefined,
     timeoutMs |-> IF "timeoutMs" \in DOMAIN given THEN given.timeoutMs ELSE 30000,
     apiKey |-> IF "apiKey" \in DOMAIN given THEN given.apiKey ELSE Undefined,
     signerCache |-> <<>>]

NoCall ==
    [op |-> "", pc |-> "idle", attempt |-> 0, lastError |-> NoError, requests |-> <<>>,
     answers |-> <<>>, sleeps |-> 0, state |-> "pending", doc |-> NullVerify, err |-> NoError]

NoDiscovery ==
    [pc |-> "idle", network |-> "", facilitatorUrl |-> "", requests |-> <<>>,
     signer |-> Undefined]

NoHealth == [pc |-> "idle", requests |-> <<>>, result |-> FALSE]

\* no FacilitatorClient used on its own
FacilitatorIdle ==
    /\ facilitator = newFacilitatorClient(<<>>)
    /\ fcall = NoCall
    /\ discoveries = <<>>
    /\ health = NoHealth

\* the hook's state after the first render: useState(false), useState(null) twice
NoHook == [paying |-> FALSE, lastPayment |-> "null", error |-> "null"]

\* no hook mounted, and a facilitator whose /supported lists no signers
HookIdle ==
    /\ hook = NoHook
    /\ hookCalls = <<>>
    /\ remote = [kind |-> "object", hasSigners |-> FALSE, signers |-> <<>>]

LibIdle == SelectorIdle /\ RetryIdle /\ FacilitatorIdle /\ HookIdle

\* the gate serving one request
Init == GateInit /\ ClientIdle /\ LibIdle

Next == GateNext

Spec == Init /\ [][Next]_vars

\* a client calling fetch
InitClient == ClientInit /\ GateIdle /\ LibIdle

NextClient == ClientNext

SpecClient == InitClient /\ [][NextClient]_vars

-----------------------------------------------------------------------------
(* End to end: an EVM client fetching a resource behind the gate, over a    *)
(* reliable network, with a signer that signs, a payer with sufficient      *)
(* balance and a facilitator that accepts and settles                       *)

\* the scenario's offer: { network: base-sepolia, amount: "1000000", payTo, apiKey }
ScenarioOptions ==
    <<[network |-> "base-sepolia", amount |-> "1000000", payTo |-> "0xaaaa",
       settle |-> "undefined", apiKey |-> "sbc_key"]>>

InitE2E ==
    /\ GateInit
    /\ entries = resolveEntries(ScenarioOptions)
    /\ ClientInit
    /\ clientKind = "evm"
    /\ LibIdle

\* the Response fetch resolves to for what the gate (or downstream) wrote
asResponse(r) ==
    [status |-> r.status, paymentRequired |-> r.paymentRequired,
     body |-> JSONstringify(ChallengeDoc(r.body.accepts)),
     paymentResponse |-> r.paymentResponse, tok |-> FALSE]

\* the client's request reaches the gate: the initial one without payment
\* headers, the paid one with both
Serve ==
    /\ gpc = "idle"
    /\ cpc \in {"initial", "paid"}
    /\ LET h == IF cpc = "paid" THEN paidRequestHeaders(built)
                ELSE [primary |-> NoHeader, legacy |-> NoHeader]
       IN  x402Handler(h.primary, h.legacy)

\* the gate's handler is invoked anew for the paid request
NextRequest ==
    /\ cpc = "paid"
    /\ gpc = "done"
    /\ req.primary = NoHeader
    /\ gpc' = "idle"
    /\ paymentPayload' = NullDoc
    /\ matched' = 0
    /\ attempt' = 0
    /\ sent' = [verify |-> 0, settle |-> 0, apiKeys |-> {}]
    /\ verifyResult' = NoResult(NullVerify)
    /\ settleResult' = NoResult(NullSettle)
    /\ res' = BlankResponse
    /\ writes' = 0
    /\ nextCalled' = 0
    /\ responseHeaders' = NoPaymentResponse
    /\ handlerResponse' = BlankResponse
    /\ promise' = "pending"
    /\ UNCHANGED <<gateKind, entries, req, clientVars, libVars>>

\* the facilitator accepts: { isValid: true }
Accepts == \E o \in HttpOutcomes(VerifyDocs, NullVerify) :
    /\ o.kind = "json" /\ o.doc.kind = "object" /\ o.doc.isValid
    /\ VerifyAttempt(o)

\* the facilitator settles: { success: true, ... }
Settles == \E o \in HttpOutcomes(SettleDocs, NullSettle) :
    /\ o.kind = "json" /\ o.doc.kind = "object" /\ o.doc.success
    /\ SettleAttempt(o)

\* the client receives the gate's answer to its initial request
Challenged ==
    /\ gpc = "done"
    /\ req.primary = NoHeader
    /\ InitialRequest([kind |-> "response", resp |-> asResponse(res), tok |-> FALSE])

\* the payer's balance covers the offer
Funded == \E o \in RpcOutcomes :
    /\ o.kind = "result" /\ o.value >= BigInt(selected.maxAmountRequired)
    /\ getTokenBalance(o)

\* the client receives the gate's (or downstream's) answer to its paid request
Served ==
    /\ gpc = "done"
    /\ req.primary # NoHeader
    /\ PaidRequest([kind |-> "response", resp |-> asResponse(res), tok |-> FALSE])

NextE2E ==
    \/ fetches = 0 /\ fetch(Undefined)
    \/ Serve
    \/ NextRequest
    \/ Accepts
    \/ Settles
    \/ \E hr \in HandlerResponses : HandlerReturns(hr)
    \/ Challenged
    \/ Funded
    \/ \E o \in SupportedOutcomes : getSignerForNetwork(o)
    \/ \E o \in RpcOutcomes : getPermitNonce(o)
    \/ sign(TRUE)
    \/ Served

SpecE2E == InitE2E /\ [][NextE2E]_vars

-----------------------------------------------------------------------------
(* One client flow, EVM or Solana, against a gate that offers the client's *)
(* network with settlement enabled, over a network without transport       *)
(* faults and a facilitator that accepts and settles whatever it is sent   *)

\* the Solana scenario's offer: { network: solana-devnet, amount, payTo, settle: true }
SolanaScenarioOptions ==
    <<[network |-> "solana-devnet", amount |-> "1000000", payTo |-> "2mSj",
       settle |-> "true", apiKey |-> Undefined]>>

InitSettlement ==
    /\ GateInit
    /\ ClientInit
    /\ entries = resolveEntries(IF clientKind = "evm" THEN ScenarioOptions
                                ELSE SolanaScenarioOptions)
    /\ LibIdle

\* the facilitator accepts the Solana client's own verify call
ClientAccepted == \E o \in HttpOutcomes(VerifyDocs, NullVerify) :
    /\ o.kind = "json" /\ o.doc.kind = "object" /\ o.doc.isValid
    /\ verify(o)

\* the facilitator settles on the Solana client's own settle call
ClientSettled == \E o \in HttpOutcomes(SettleDocs, NullSettle) :
    /\ o.kind = "json" /\ o.doc.kind = "object" /\ o.doc.success
    /\ settle(o)

NextSettlement ==
    \/ NextE2E
    \/ ClientAccepted
    \/ ClientSettled

SpecSettlement == InitSettlement /\ [][NextSettlement]_vars

-----------------------------------------------------------------------------
(* selectRequirement of either client, called on bounded arguments *)

\* the longest offer list handed to the selector
MaxOffers == 2

SelectorOffers ==
    {Offer(n, a) : n \in {"base", "base-sepolia", "solana", "solana-devnet"},
                   a \in {"1000000", "2000000000", "1000000000000000000"}}
    \cup {ForeignOffer}

SelectorLists == UNION {[1..n -> SelectorOffers] : n \in 0..MaxOffers}

SelectorInputs ==
    [kind : {"evm", "solana"}, requirements : SelectorLists,
     preferredNetwork : {Undefined, "base", "solana"},
     maxAmount : {Undefined, "", "0", "1.5", "0.0000015"}]

InitSelector ==
    /\ GateIdle
    /\ ClientIdle
    /\ RetryIdle
    /\ FacilitatorIdle
    /\ HookIdle
    /\ selectorInput \in SelectorInputs
    /\ selectorResult = NotSelected

\* selectRequirement(requirements, preferredNetwork, maxAmount)
Select ==
    /\ ~selectorResult.called
    /\ LET r == selectRequirement(selectorInput.kind, selectorInput.requirements,
                                  selectorInput.preferredNetwork, selectorInput.maxAmount)
       IN  selectorResult' = [called |-> TRUE, found |-> r.found, requirement |-> r.requirement]
    /\ UNCHANGED <<gateVars, clientVars, retryVars, facVars, hookVars, remote, selectorInput>>

NextSelector == Select

SpecSelector == InitSelector /\ [][NextSelector]_vars

-----------------------------------------------------------------------------
(* withRetry(fn, operation, options), called on bounded options with a fn  *)
(* that returns or throws as it pleases                                    *)

\* the largest maxAttempts option
MaxRetryAttempts == 3

\* the options argument (a field that is left out takes the default)
RetryOptions ==
    {<<>>}
    \cup {[maxAttempts |-> n] : n \in 0..MaxRetryAttempts}
    \cup {[maxAttempts |-> n, initialDelay |-> d, maxDelay |-> m, backoffMultiplier |-> b] :
            n \in 1..MaxRetryAttempts, d \in {100, 5000, 20000}, m \in {6000, 10000},
            b \in {1, 2, 3}}
    \cup {[retryableErrors |-> l, initialDelay |-> 10] : l \in {{}, {"MY_CUSTOM_RETRY"}}}

\* what fn can throw; tokens: the strings of interest that occur in the name or
\* the message
ThrownErrors ==
    {[name |-> "Error", message |-> "Signature verification failed", tokens |-> {}],
     [name |-> "Error", message |-> "read ECONNRESET", tokens |-> {"ECONNRESET"}],
     [name |-> "Error", message |-> "econnreset by peer", tokens |-> {"econnreset"}],
     [name |-> "NETWORK_ERROR", message |-> "connection lost", tokens |-> {"NETWORK_ERROR"}],
     [name |-> "Error", message |-> "MY_CUSTOM_RETRY", tokens |-> {"MY_CUSTOM_RETRY"}]}

FnOutcomes ==
    {[ok |-> TRUE, err |-> NoError]} \cup {[ok |-> FALSE, err |-> e] : e \in ThrownErrors}

InitRetry ==
    /\ GateIdle
    /\ ClientIdle
    /\ SelectorIdle
    /\ FacilitatorIdle
    /\ HookIdle
    /\ retryOpts \in {mergeOptions(given) : given \in RetryOptions}
    /\ loop = [pc |-> "idle", attempt |-> 0, delay |-> 0, lastError |-> NoError]
    /\ log = [invocations |-> 0, sleeps |-> <<>>, state |-> "pending", err |-> NoError]

\* withRetry is called: the locals are set and the loop is entered, or skipped
\* when maxAttempts is below 1 (then `throw lastError ?? new Error(...)`)
Enter ==
    /\ loop.pc = "idle"
    /\ IF 1 <= retryOpts.maxAttempts
       THEN /\ loop' = [pc |-> "call", attempt |-> 1, delay |-> retryOpts.initialDelay,
                        lastError |-> NoError]
            /\ log' = log
       ELSE /\ loop' = [loop EXCEPT !.pc = "done", !.attempt = 1, !.delay = retryOpts.initialDelay]
            /\ log' = [log EXCEPT !.state = "threw",
                                  !.err = [name |-> "Error", message |-> "operation failed",
                                           tokens |-> {}]]
    /\ UNCHANGED <<gateVars, clientVars, selectorVars, facVars, hookVars, remote, retryOpts>>

\* `return await fn()` and the catch block
Invoke(o) ==
    /\ loop.pc = "call"
    /\ IF o.ok
       THEN /\ loop' = [loop EXCEPT !.pc = "done"]
            /\ log' = [log EXCEPT !.invocations = @ + 1, !.state = "returned"]
       ELSE LET next == afterFailure(retryOpts, loop.attempt, o.err)
            IN  IF next = "throw"
                THEN /\ loop' = [loop EXCEPT !.pc = "done", !.lastError = o.err]
                     /\ log' = [log EXCEPT !.invocations = @ + 1, !.state = "threw",
                                           !.err = o.err]
                ELSE /\ loop' = [loop EXCEPT !.pc = "sleep", !.lastError = o.err]
                     /\ log' = [log EXCEPT !.invocations = @ + 1]
    /\ UNCHANGED <<gateVars, clientVars, selectorVars, facVars, hookVars, remote, retryOpts>>

\* `await sleep(delay)`, the new delay, and attempt++
Sleep ==
    /\ loop.pc = "sleep"
    /\ log' = [log EXCEPT !.sleeps = Append(@, loop.delay)]
    /\ loop' = [loop EXCEPT !.pc = "call", !.attempt = @ + 1,
                            !.delay = min(loop.delay * retryOpts.backoffMultiplier, retryOpts.maxDelay)]
    /\ UNCHANGED <<gateVars, clientVars, selectorVars, facVars, hookVars, remote, retryOpts>>

NextRetry ==
    \/ Enter
    \/ \E o \in FnOutcomes : Invoke(o)
    \/ Sleep

SpecRetry == InitRetry /\ [][NextRetry]_vars

-----------------------------------------------------------------------------
(* A FacilitatorClient called on its own, against a remote service that    *)
(* answers as it pleases, or not at all                                    *)

\* the options the instance is constructed with
FacilitatorClientOptions ==
    {<<>>, [apiKey |-> "sbc_key"], [apiKey |-> ""], [timeoutMs |-> 1],
     [facilitatorUrl |-> "http://localhost:3001", apiKey |-> "sbc_key"]}

\* url.replace(/^(https?:\/\/)localhost([:\/])/i, "$1127.0.0.1$2"), on the URLs in use
normalizeLocalhost(url) ==
    IF url = "http://localhost:3001" THEN "http://127.0.0.1:3001" ELSE url

\* fromCAIP2: the first registry name whose CAIP-2 form is the argument, else
\* the argument itself
fromCAIP2(caip2) ==
    LET names == <<"base", "base-sepolia", "radius", "radius-testnet", "solana", "solana-devnet">>
        hit(i) == \/ "eip155:" \o ToString(SUPPORTED_NETWORKS[names[i]].chainId) = caip2
                  \/ names[i] = "solana" /\ caip2 = "solana:mainnet-beta"
                  \/ names[i] = "solana-devnet" /\ caip2 = "solana:devnet"
        hits == {i \in 1..Len(names) : hit(i)}
    IN  IF hits = {} THEN caip2
        ELSE names[CHOOSE i \in hits : \A j \in hits : i <= j]

getFacilitatorUrl(fc, network) ==
    IF Truthy(fc.overrideUrl) THEN normalizeLocalhost(fc.overrideUrl)
    ELSE LET name == IF IsSupported(network) THEN network ELSE fromCAIP2(network)
         IN  normalizeLocalhost(IF IsSupported(name)
                                THEN SUPPORTED_NETWORKS[name].facilitatorUrl
                                ELSE "https://x402.stablecoin.xyz")

\* the request verify and settle send: the X-API-Key header is set when apiKey
\* is truthy, and fetchWithTimeout arms a timer of timeoutMs
facilitatorRequest(fc, network, path) ==
    [url |-> getFacilitatorUrl(fc, network) \o path,
     apiKey |-> IF Truthy(fc.apiKey) THEN fc.apiKey ELSE Undefined,
     timed |-> TRUE, timeoutMs |-> fc.timeoutMs]

\* the request getSignerForNetwork and isHealthy send: this.fetchFn(url)
plainRequest(url) == [url |-> url, apiKey |-> Undefined, timed |-> FALSE, timeoutMs |-> 0]

\* what the remote can answer to a verify or settle request
FacilitatorAnswers(op) ==
    (IF op = "verify" THEN HttpOutcomes(VerifyDocs, NullVerify)
     ELSE HttpOutcomes(SettleDocs, NullSettle))
    \cup {[kind |-> "status", doc |-> IF op = "verify" THEN NullVerify ELSE NullSettle,
           tok |-> FALSE, status |-> 400]}

InitFacilitator ==
    /\ GateIdle
    /\ ClientIdle
    /\ SelectorIdle
    /\ RetryIdle
    /\ HookIdle
    /\ facilitator \in {newFacilitatorClient(given) : given \in FacilitatorClientOptions}
    /\ fcall = NoCall
    /\ discoveries = <<>>
    /\ health = NoHealth

\* facilitator.verify / facilitator.settle is called: withRetry enters its loop
\* and the first request goes out
Call(op, network) ==
    /\ fcall.pc = "idle"
    /\ fcall' = [NoCall EXCEPT !.op = op, !.pc = "fetch", !.attempt = 1,
                               !.requests = <<facilitatorRequest(facilitator, network, "/" \o op)>>,
                               !.doc = IF op = "verify" THEN NullVerify ELSE NullSettle]
    /\ UNCHANGED <<gateVars, clientVars, selectorVars, retryVars, hookVars, remote, facilitator, discoveries, health>>

\* the attempt's fetch is over with outcome o: the rest of the function given
\* to withRetry, and withRetry's catch block
endAttempt(o) ==
    LET r == facilitatorAttempt(fcall.op, o)
        next == withRetry(r, fcall.attempt)
        seen == Append(fcall.answers, [kind |-> o.kind, status |-> o.status, tok |-> o.tok])
    IN  CASE next = "return" ->
                fcall' = [fcall EXCEPT !.pc = "done", !.answers = seen, !.state = "returned",
                                       !.doc = r.doc]
          [] next = "throw" ->
                fcall' = [fcall EXCEPT !.pc = "done", !.answers = seen, !.state = "threw",
                                       !.lastError = r.err, !.err = r.err]
          [] next = "retry" ->
                fcall' = [fcall EXCEPT !.pc = "sleep", !.answers = seen, !.lastError = r.err]

\* the remote answers, or the transport fails
Respond(o) ==
    /\ fcall.pc = "fetch"
    /\ o \in FacilitatorAnswers(fcall.op)
    /\ o.kind # "abort"
    /\ endAttempt(o)
    /\ UNCHANGED <<gateVars, clientVars, selectorVars, retryVars, hookVars, remote, facilitator, discoveries, health>>

\* fetchWithTimeout's timer fires: controller.abort(), fetch rejects with AbortError
Timeout ==
    /\ fcall.pc = "fetch"
    /\ endAttempt([kind |-> "abort", doc |-> fcall.doc, tok |-> FALSE, status |-> 0])
    /\ UNCHANGED <<gateVars, clientVars, selectorVars, retryVars, hookVars, remote, facilitator, discoveries, health>>

\* withRetry's sleep is over: attempt++, and the next request goes out
Wake ==
    /\ fcall.pc = "sleep"
    /\ fcall' = [fcall EXCEPT !.pc = "fetch", !.attempt = @ + 1, !.sleeps = @ + 1,
                              !.requests = Append(@, fcall.requests[1])]
    /\ UNCHANGED <<gateVars, clientVars, selectorVars, retryVars, hookVars, remote, facilitator, discoveries, health>>

\* facilitator.isHealthy() is called
isHealthy ==
    /\ health.pc = "idle"
    /\ health' = [health EXCEPT !.pc = "fetch",
                    !.requests = <<plainRequest(normalizeLocalhost(
                                      Coalesce(facilitator.overrideUrl, "https://x402.stablecoin.xyz"))
                                      \o "/health")>>]
    /\ UNCHANGED <<gateVars, clientVars, selectorVars, retryVars, hookVars, remote, facilitator, fcall, discoveries>>

\* the /health request is over: response.ok, or false from the catch block
HealthResponds(o) ==
    /\ health.pc = "fetch"
    /\ health' = [health EXCEPT !.pc = "done", !.result = (o = "ok")]
    /\ UNCHANGED <<gateVars, clientVars, selectorVars, retryVars, hookVars, remote, facilitator, fcall, discoveries>>

NextFacilitator ==
    \/ \E op \in {"verify", "settle"}, network \in PayloadNetworks : Call(op, network)
    \/ \E o \in FacilitatorAnswers("verify") \cup FacilitatorAnswers("settle") : Respond(o)
    \/ Timeout
    \/ Wake
    \/ isHealthy
    \/ \E o \in {"ok", "notok", "neterr"} : HealthResponds(o)

SpecFacilitator == InitFacilitator /\ [][NextFacilitator]_vars

-----------------------------------------------------------------------------
(* FacilitatorClient.getSignerForNetwork, called by several callers of one *)
(* instance, one after another or at the same time                         *)

\* how many callers ask the instance for the signer
MaxDiscoveries == 2

\* the caip2Network arguments
DiscoveryNetworks == {"eip155:84532", "solana:devnet"}

\* caip2Network.split(":")[0] + ":*"
namespaceOf(caip2Network) ==
    IF caip2Network = "solana:devnet" THEN "solana:*" ELSE "eip155:*"

\* bodies of GET /supported: the JSON text null, an object without signers,
\* and objects whose signers map CAIP-2 keys to address lists
SupportedBodies ==
    {[kind |-> "null", hasSigners |-> FALSE, signers |-> <<>>],
     [kind |-> "object", hasSigners |-> FALSE, signers |-> <<>>],
     [kind |-> "object", hasSigners |-> TRUE,
      signers |-> ("eip155:84532" :> <<"0xfac1", "0xfac9">>) @@ ("eip155:*" :> <<"0xfac2">>)
                  @@ ("solana:*" :> <<"SoLfac">>)],
     [kind |-> "object", hasSigners |-> TRUE,
      signers |-> ("eip155:84532" :> <<>>) @@ ("eip155:*" :> <<"0xfac2">>)]}

\* what a GET /supported can come to
SupportedAnswers ==
    {[kind |-> "json", body |-> b] : b \in SupportedBodies}
    \cup {[kind |-> k, body |-> [kind |-> "null", hasSigners |-> FALSE, signers |-> <<>>]] :
            k \in {"status", "neterr", "nonjson"}}

\* data.signers?.[caip2Network] ?? data.signers?.[namespace] ?? [], then [0]
firstSigner(data, caip2Network) ==
    LET at(key) == IF data.hasSigners /\ key \in DOMAIN data.signers
                   THEN [some |-> TRUE, list |-> data.signers[key]]
                   ELSE [some |-> FALSE, list |-> <<>>]
        exact == at(caip2Network)
        signers == IF exact.some THEN exact.list ELSE at(namespaceOf(caip2Network)).list
    IN  IF Len(signers) > 0 THEN signers[1] ELSE Undefined

\* what getSignerForNetwork caches and returns for the answer o; reading
\* data.signers of null throws, which the catch block turns into undefined
discoveredSigner(o, caip2Network) ==
    IF o.kind = "json" /\ o.body.kind = "object" THEN firstSigner(o.body, caip2Network)
    ELSE Undefined

\* this.signerCache.set(key, value)
cacheSet(cache, key, value) ==
    [k \in DOMAIN cache \cup {key} |-> IF k = key THEN value ELSE cache[k]]

InitDiscovery ==
    /\ GateIdle
    /\ ClientIdle
    /\ SelectorIdle
    /\ RetryIdle
    /\ HookIdle
    /\ facilitator \in {newFacilitatorClient(given) : given \in FacilitatorClientOptions}
    /\ fcall = NoCall
    /\ discoveries = [i \in 1..MaxDiscoveries |-> NoDiscovery]
    /\ health = NoHealth

\* caller i calls getSignerForNetwork(caip2Network): answered from the cache, or
\* the /supported request goes out
Discover(i, caip2Network) ==
    /\ i \in DOMAIN discoveries
    /\ discoveries[i].pc = "idle"
    /\ LET facilitatorUrl == getFacilitatorUrl(facilitator, caip2Network)
       IN  IF facilitatorUrl \in DOMAIN facilitator.signerCache
           THEN discoveries' = [discoveries EXCEPT ![i] =
                    [pc |-> "done", network |-> caip2Network, facilitatorUrl |-> facilitatorUrl,
                     requests |-> <<>>, signer |-> facilitator.signerCache[facilitatorUrl]]]
           ELSE discoveries' = [discoveries EXCEPT ![i] =
                    [pc |-> "fetch", network |-> caip2Network, facilitatorUrl |-> facilitatorUrl,
                     requests |-> <<plainRequest(facilitatorUrl \o "/supported")>>,
                     signer |-> Undefined]]
    /\ UNCHANGED <<gateVars, clientVars, selectorVars, retryVars, hookVars, remote, facilitator, fcall, health>>

\* caller i's /supported request is over: the result is cached and returned
SupportedResponds(i, o) ==
    /\ i \in DOMAIN discoveries
    /\ discoveries[i].pc = "fetch"
    /\ LET signer == discoveredSigner(o, discoveries[i].network)
       IN  /\ facilitator' = [facilitator EXCEPT !.signerCache =
                                 cacheSet(@, discoveries[i].facilitatorUrl, signer)]
           /\ discoveries' = [discoveries EXCEPT ![i].pc = "done", ![i].signer = signer]
    /\ UNCHANGED <<gateVars, clientVars, selectorVars, retryVars, hookVars, remote, fcall, health>>

NextDiscovery ==
    \/ \E i \in 1..MaxDiscoveries, n \in DiscoveryNetworks : Discover(i, n)
    \/ \E i \in 1..MaxDiscoveries, o \in SupportedAnswers : SupportedResponds(i, o)

SpecDiscovery == InitDiscovery /\ [][NextDiscovery]_vars

-----------------------------------------------------------------------------
(* All four operations of one FacilitatorClient, with the timers of the    *)
(* event loop: a timer that is armed fires unless it is cleared first, and *)
(* a sleep ends.  Nothing obliges the remote to answer.                    *)

InitFacilitatorLive ==
    /\ GateIdle
    /\ ClientIdle
    /\ SelectorIdle
    /\ RetryIdle
    /\ HookIdle
    /\ facilitator \in {newFacilitatorClient(<<>>), newFacilitatorClient([timeoutMs |-> 1])}
    /\ fcall = NoCall
    /\ discoveries = <<NoDiscovery>>
    /\ health = NoHealth

NextFacilitatorLive == NextFacilitator \/ NextDiscovery

SpecFacilitatorLive ==
    /\ InitFacilitatorLive
    /\ [][NextFacilitatorLive]_vars
    /\ WF_vars(Timeout)
    /\ WF_vars(Wake)

-----------------------------------------------------------------------------
(* The useX402 hook: one mounted component whose fetch is called by        *)
(* several callers, one after another or at the same time                  *)

MaxHookCalls == 3

\* a call of the hook's fetch that has not been made
NoHookCall == [pc |-> "idle", paymentTriggered |-> FALSE, result |-> "none"]

\* the statuses the tracked fetch can see, 0 standing for a rejected fetch
HookStatuses == {200, 402, 500, 0}

InitHook ==
    /\ GateIdle
    /\ ClientIdle
    /\ SelectorIdle
    /\ RetryIdle
    /\ FacilitatorIdle
    /\ hook = NoHook
    /\ hookCalls = [i \in 1..MaxHookCalls |-> NoHookCall]
    /\ remote = [kind |-> "object", hasSigners |-> FALSE, signers |-> <<>>]

\* trackedFetchFn on a response: the first 402 of the call flips paying
tracked(i, status) ==
    IF status = 402 /\ ~hookCalls[i].paymentTriggered
    THEN [triggered |-> TRUE, paying |-> TRUE]
    ELSE [triggered |-> hookCalls[i].paymentTriggered, paying |-> hook.paying]

\* client.fetch is over for call i, whose paymentTriggered is triggered and
\* which saw paying: the try, catch and finally blocks of x402Fetch
x402FetchEnds(i, triggered, paying, result) ==
    /\ hookCalls' = [hookCalls EXCEPT ![i] =
                        [pc |-> "done", paymentTriggered |-> triggered, result |-> result]]
    /\ hook' = [paying |-> IF triggered THEN FALSE ELSE paying,
                lastPayment |-> IF result = "paid" THEN ToString(i) ELSE hook.lastPayment,
                error |-> IF result = "threw" THEN ToString(i) ELSE hook.error]

\* caller i calls the hook's fetch, with or without a connected signer
x402Fetch(i, signer) ==
    /\ i \in DOMAIN hookCalls
    /\ hookCalls[i].pc = "idle"
    /\ IF ~signer
       THEN /\ hookCalls' = [hookCalls EXCEPT ![i] =
                                [pc |-> "done", paymentTriggered |-> FALSE, result |-> "threw"]]
            /\ hook' = hook
       ELSE /\ hookCalls' = [hookCalls EXCEPT ![i].pc = "initial"]
            /\ hook' = [hook EXCEPT !.error = "null"]
    /\ UNCHANGED <<gateVars, clientVars, selectorVars, retryVars, facVars, remote>>

\* the client's first request is answered: anything but a 402 is returned as it is
InitialResponse(i, status) ==
    /\ i \in DOMAIN hookCalls
    /\ hookCalls[i].pc = "initial"
    /\ LET t == tracked(i, status)
       IN  CASE status = 402 ->
                  /\ hookCalls' = [hookCalls EXCEPT ![i].pc = "flow", ![i].paymentTriggered = t.triggered]
                  /\ hook' = [hook EXCEPT !.paying = t.paying]
             [] status = 0 -> x402FetchEnds(i, t.triggered, t.paying, "threw")
             [] OTHER -> x402FetchEnds(i, t.triggered, t.paying, "returned")
    /\ UNCHANGED <<gateVars, clientVars, selectorVars, retryVars, facVars, remote>>

\* the client gives up between the 402 and the paid request: no offer
\* accepted, balance too low, signer refusing
FlowFails(i) ==
    /\ i \in DOMAIN hookCalls
    /\ hookCalls[i].pc = "flow"
    /\ x402FetchEnds(i, hookCalls[i].paymentTriggered, hook.paying, "threw")
    /\ UNCHANGED <<gateVars, clientVars, selectorVars, retryVars, facVars, remote>>

\* the paid request is answered: a 402 or a rejected fetch makes the client
\* throw, anything else is returned with its paymentResult
PaidResponse(i, status) ==
    /\ i \in DOMAIN hookCalls
    /\ hookCalls[i].pc = "flow"
    /\ LET t == tracked(i, status)
       IN  x402FetchEnds(i, t.triggered, t.paying,
                         IF status \in {402, 0} THEN "threw" ELSE "paid")
    /\ UNCHANGED <<gateVars, clientVars, selectorVars, retryVars, facVars, remote>>

NextHook ==
    \/ \E i \in 1..MaxHookCalls, signer \in BOOLEAN : x402Fetch(i, signer)
    \/ \E i \in 1..MaxHookCalls, status \in HookStatuses : InitialResponse(i, status)
    \/ \E i \in 1..MaxHookCalls : FlowFails(i)
    \/ \E i \in 1..MaxHookCalls, status \in HookStatuses : PaidResponse(i, status)

SpecHook == InitHook /\ [][NextHook]_vars

-----------------------------------------------------------------------------
(* Several fetches of one EVM client at Step 4, running at the same time   *)
(* against a facilitator that serves one /supported document over a        *)
(* reliable network: the FacilitatorClient is the only thing the fetches   *)
(* of a client have in common                                              *)

\* the CAIP-2 names of the offers the fetches have selected
FlowNetworks == {toCAIP2("base-sepolia"), toCAIP2("radius-testnet")}

InitFlows ==
    /\ GateIdle
    /\ ClientIdle
    /\ SelectorIdle
    /\ RetryIdle
    /\ hook = NoHook
    /\ hookCalls = <<>>
    /\ remote \in SupportedBodies
    /\ facilitator \in {newFacilitatorClient(given) : given \in FacilitatorClientOptions}
    /\ fcall = NoCall
    /\ discoveries = [i \in 1..MaxDiscoveries |-> NoDiscovery]
    /\ health = NoHealth

NextFlows ==
    \/ \E i \in 1..MaxDiscoveries, n \in FlowNetworks : Discover(i, n)
    \/ \E i \in 1..MaxDiscoveries : SupportedResponds(i, [kind |-> "json", body |-> remote])

SpecFlows == InitFlows /\ [][NextFlows]_vars

-----------------------------------------------------------------------------
(* Properties of the gate *)

\* the raw header the handler reads from the request, and what it decodes to
RawHeader == rawHeaderOf(req)

Decoded == JSONparse(fromBase64(RawHeader))

\* the response lists every configured offer, one per entry, in configuration order
ListsAllOffers(accepts) ==
    /\ Len(accepts) = Len(entries)
    /\ \A i \in 1..Len(entries) :
          /\ accepts[i].network = entries[i].network
          /\ accepts[i].maxAmountRequired = entries[i].amount
          /\ accepts[i].payTo = entries[i].payTo

\* the 402 challenge: status 402, the offers in the body and in the base64 header
IsChallenge ==
    /\ res.status = 402
    /\ res.body.hasAccepts
    /\ ListsAllOffers(res.body.accepts)
    /\ res.paymentRequired.str = "b64"
    /\ ~JSONparse(fromBase64(res.paymentRequired)).threw
    /\ ListsAllOffers(JSONparse(fromBase64(res.paymentRequired)).val.accepts)

\* C1: a request with neither payment header gets a 402 whose body and base64
\* PAYMENT-REQUIRED header list every configured offer in configuration order;
\* neither the facilitator nor downstream is called.
C1_NoHeaderChallenge ==
    (gpc # "idle" /\ req.primary.str = "undefined" /\ req.legacy.str = "undefined") =>
        /\ gpc = "done"
        /\ promise = "fulfilled"
        /\ IsChallenge
        /\ sent.verify = 0
        /\ sent.settle = 0
        /\ nextCalled = 0

C1_Witness ==
    /\ gpc = "done"
    /\ req.primary.str = "undefined"
    /\ req.legacy.str = "undefined"
    /\ Len(entries) = 2
    /\ entries[1].network # entries[2].network
    /\ res.status = 402

\* C2 (as claimed): a header that is present (non-empty) and does not decode to
\* a payload with `accepted` is answered with a 402 challenge that has an error
\* field; the handler's promise never rejects and downstream is never called.
C2_MalformedHeaderChallenge ==
    (/\ gpc # "idle"
     /\ RawHeader.str \in {"plain", "b64"}
     /\ (Decoded.threw \/ ~Decoded.val.accepted)) =>
        /\ gpc = "done"
        /\ promise = "fulfilled"
        /\ IsChallenge
        /\ res.body.error # Undefined
        /\ nextCalled = 0

\* the payload was decoded, is not null, and names a network no entry accepts
Unmatched ==
    /\ ~noRawHeader(RawHeader)
    /\ ~Decoded.threw
    /\ Decoded.val.kind # "null"
    /\ \A i \in 1..Len(entries) :
          toCAIP2(entries[i].network) # acceptedNetwork(Decoded.val)

\* C3: a payload whose declared network matches no configured offer is answered
\* with a 402 challenge whose error names that network; verify, settle and
\* downstream are never called.
C3_UnmatchedNetwork ==
    (gpc # "idle" /\ Unmatched) =>
        /\ gpc = "done"
        /\ promise = "fulfilled"
        /\ IsChallenge
        /\ res.body.error = "No payment option found for network \""
                            \o Str(acceptedNetwork(Decoded.val)) \o "\""
        /\ sent.verify = 0
        /\ sent.settle = 0
        /\ nextCalled = 0

C3_Witness ==
    /\ gpc = "done"
    /\ Unmatched
    /\ Len(entries) = 2
    /\ entries[1].network # entries[2].network
    /\ acceptedNetwork(Decoded.val) = "eip155:8453"
    /\ res.body.error = "No payment option found for network \"eip155:8453\""

\* settle answered with an object whose success is false
SettleFailed ==
    /\ settleResult.state = "resolved"
    /\ settleResult.doc.kind = "object"
    /\ ~settleResult.doc.success

\* C4: verify valid and settle success=false: status 402, a body holding only an
\* error that cites the settle result's error (errorReason when error is
\* absent), no offer list; downstream is never called.
C4_SettleFailure ==
    SettleFailed =>
        /\ gpc = "done"
        /\ promise = "fulfilled"
        /\ verifyResult.state = "resolved" /\ verifyResult.doc.isValid
        /\ res.status = 402
        /\ res.body.error = "Payment settlement failed: "
                            \o Str(IF settleResult.doc.error # Undefined
                                   THEN settleResult.doc.error
                                   ELSE settleResult.doc.errorReason)
        /\ ~res.body.hasAccepts
        /\ res.body.x402Version = 0
        /\ res.body.content = ""
        /\ nextCalled = 0

C4_Witness ==
    /\ SettleFailed
    /\ settleResult.doc.error = Undefined
    /\ settleResult.doc.errorReason = "insufficient_funds"
    /\ res.body.error = "Payment settlement failed: insufficient_funds"

\* verify answered with an object whose isValid is false
VerifyRejected ==
    /\ verifyResult.state = "resolved"
    /\ verifyResult.doc.kind = "object"
    /\ ~verifyResult.doc.isValid

\* C5 (as claimed): isValid=false is answered with a 402 challenge whose error
\* field is present and equals the stated invalidReason; neither settle nor
\* downstream is called.
C5_VerifyRejectedAlwaysHasReason ==
    VerifyRejected =>
        /\ gpc = "done"
        /\ IsChallenge
        /\ res.body.error # Undefined
        /\ res.body.error = verifyResult.doc.invalidReason
        /\ sent.settle = 0
        /\ nextCalled = 0

\* C5 (amended): isValid=false is answered with a 402 challenge; its error field
\* equals invalidReason when the facilitator stated a non-empty one and is left
\* out when invalidReason is absent or empty (never a generic message); neither
\* settle nor downstream is called.
C5_VerifyRejected ==
    VerifyRejected =>
        /\ gpc = "done"
        /\ promise = "fulfilled"
        /\ IsChallenge
        /\ res.body.error = (IF verifyResult.doc.invalidReason \notin {Undefined, ""}
                             THEN verifyResult.doc.invalidReason
                             ELSE Undefined)
        /\ sent.settle = 0
        /\ nextCalled = 0

C5_Witness ==
    /\ VerifyRejected
    /\ verifyResult.doc.invalidReason = "Expired"
    /\ res.body.error = "Expired"
    /\ gpc = "done"

\* C6: an error thrown by verify or settle (transport error, timeout, non-2xx,
\* non-JSON) ends in a 402 JSON error response; the handler's promise is
\* fulfilled, never rejected, and downstream is not called.
C6_FacilitatorFailureCaught ==
    (verifyResult.state = "rejected" \/ settleResult.state = "rejected") =>
        /\ gpc = "done"
        /\ promise = "fulfilled"
        /\ writes = 1
        /\ res.status = 402
        /\ res.body.error = "Payment processing failed: "
                            \o (IF verifyResult.state = "rejected"
                                THEN verifyResult.err.message
                                ELSE settleResult.err.message)
        /\ nextCalled = 0

C6_Witness ==
    /\ settleResult.state = "rejected"
    /\ settleResult.err.name = "PaymentTimeoutError"
    /\ gpc = "done"
    /\ res.status = 402

\* verify was valid, settle succeeded, and downstream has answered
Authorized ==
    /\ gpc = "done"
    /\ settleResult.state = "resolved"
    /\ settleResult.doc.kind = "object"
    /\ settleResult.doc.success
    /\ nextCalled = 1
    /\ writes = 0

\* the settle result carries a transaction id under txHash or under transaction
CarriedId(doc) ==
    IF doc.txHash \notin {Undefined, ""} THEN doc.txHash
    ELSE IF doc.transaction \notin {Undefined, ""} THEN doc.transaction
    ELSE Undefined

\* what downstream itself put on the response
Downstream == IF gateKind = "express" THEN BlankResponse ELSE handlerResponse

\* C7 (as claimed): after a valid verify and a successful settle the caller gets
\* downstream's response; PAYMENT-RESPONSE = base64(JSON {success, transaction,
\* network}) is added iff the settle result carried a transaction id under
\* txHash or transaction; downstream's status, body and headers are unchanged.
C7_AuthorizedResponse ==
    Authorized =>
        /\ res.status = Downstream.status
        /\ res.body = Downstream.body
        /\ res.custom = Downstream.custom
        /\ IF Downstream.paymentResponse # NoPaymentResponse
           THEN res.paymentResponse = Downstream.paymentResponse
           ELSE IF CarriedId(settleResult.doc) # Undefined
           THEN res.paymentResponse =
                    paymentResponseOf(CarriedId(settleResult.doc), entries[matched].network)
           ELSE res.paymentResponse = NoPaymentResponse

\* verify answered valid for an entry configured with settle: false
VerifyOnly ==
    /\ matched # 0
    /\ ~entries[matched].settle
    /\ verifyResult.state = "resolved"
    /\ verifyResult.doc.kind = "object"
    /\ verifyResult.doc.isValid

\* C8: for an offer configured with settle=false, a valid verify result calls
\* downstream once, no settle request is ever sent and no confirmation header is
\* attached.
C8_VerifyOnly ==
    VerifyOnly =>
        /\ nextCalled = 1
        /\ sent.settle = 0
        /\ settleResult.state = "none"
        /\ responseHeaders = NoPaymentResponse
        /\ (gpc = "done" /\ writes = 0) => res.paymentResponse = Downstream.paymentResponse

C8_Witness ==
    /\ VerifyOnly
    /\ gpc = "done"
    /\ writes = 0
    /\ Len(entries) = 2
    /\ entries[1].settle
    /\ matched = 2
    /\ res.paymentResponse = NoPaymentResponse

-----------------------------------------------------------------------------
(* Properties of the clients *)

\* the initial request was answered, and not with a 402
ShortCircuit == initialResponse # NoResponse /\ initialResponse.status # 402

\* C9: when the initial request returns a status other than 402, client.fetch
\* returns that response as-is with no paymentResult and performs no signing
\* call, no balance or nonce RPC call, no facilitator call and no second
\* request to the resource.
C9_NonPaymentShortCircuit ==
    ShortCircuit =>
        /\ cpc = "done"
        /\ outcome.state = "returned"
        /\ outcome.response = initialResponse
        /\ ~outcome.hasPaymentResult
        /\ calls.sign = 0
        /\ calls.rpc = 0
        /\ calls.supported = 0
        /\ calls.verify = 0
        /\ calls.settle = 0
        /\ calls.paid = 0

C9_Witness ==
    /\ ShortCircuit
    /\ initialResponse.status = 404
    /\ calls.resource = 2
    /\ outcome.state = "returned"
    /\ outcome.response.status = 404

Rejected402(err) ==
    err.message \in {"Received 402 after payment", "Received 402 after payment: {}",
                     "Received 402 after payment: upstream ETIMEDOUT"}

\* C12 (as claimed): once the request re-issued with the payment headers has
\* been answered with status 402, the flow ends with the "402 after payment"
\* error and hands the caller no response and no paymentResult.
C12_PaidButRejected ==
    (cpc = "done" /\ Rejected402(lastError)) =>
        /\ outcome.state = "threw"
        /\ Rejected402(outcome.err)
        /\ outcome.response = NoResponse
        /\ ~outcome.hasPaymentResult

\* C13: every paid request carries both PAYMENT-SIGNATURE and X-PAYMENT, and
\* both hold the same value, the base64 of the JSON of the payload signed in
\* this flow (for the selected offer's network); before the paid request no
\* payment header is sent.
C13_DualPaymentHeaders ==
    /\ calls.paid = 0 => paidHeaders = [primary |-> NoHeader, legacy |-> NoHeader]
    /\ calls.paid > 0 =>
          /\ paidHeaders.primary.str = "b64"
          /\ paidHeaders.legacy = paidHeaders.primary
          /\ ~JSONparse(fromBase64(paidHeaders.primary)).threw
          /\ JSONparse(fromBase64(paidHeaders.legacy)).val = paymentPayloadOf(built)
          /\ built.method # "none"
          /\ built.network = toCAIP2(selected.network)

C13_Witness ==
    /\ calls.paid = 2
    /\ clientKind = "evm"
    /\ built.method = "sbc"
    /\ paidHeaders.legacy.str = "b64"
    /\ JSONparse(fromBase64(paidHeaders.legacy)).val.method = "sbc"

\* C14: in the EVM client, when the balance check is not disabled and an RPC
\* endpoint is resolvable for the selected network, the balance is read before
\* anything is signed; a balance strictly below the offer's required amount ends
\* the flow with InsufficientBalanceError carrying the balance and the required
\* amount, with no signature requested and no paid request sent; a balance equal
\* to or above the required amount never raises that error.
C14_BalanceCheck ==
    clientKind = "evm" =>
        /\ (calls.sign > 0 /\ checksBalance(options, selected.network)) => balance.read
        /\ (balance.read /\ balance.value < BigInt(selected.maxAmountRequired)) =>
              /\ cpc = "done"
              /\ outcome.state = "threw"
              /\ outcome.err.name = "InsufficientBalanceError"
              /\ outcome.err.balance = ToString(balance.value)
              /\ outcome.err.required = selected.maxAmountRequired
              /\ calls.sign = 0
              /\ calls.supported = 0
              /\ calls.paid = 0
        /\ (balance.read /\ balance.value >= BigInt(selected.maxAmountRequired)) =>
              /\ outcome.err.name # "InsufficientBalanceError"
              /\ cpc = "done" => (calls.sign > 0 \/ calls.rpc > cattempt \/ lastError # NoError)
        /\ outcome.err.name = "InsufficientBalanceError" => balance.read

C14_Witness ==
    /\ clientKind = "evm"
    /\ ~options.skipBalanceCheck
    /\ balance = [read |-> TRUE, value |-> 0]
    /\ selected.maxAmountRequired = "1000000"
    /\ outcome.state = "threw"
    /\ outcome.err.message = "Insufficient balance. Required: 1000000, Available: 0"

\* the PAYMENT-RESPONSE header h is present and decodes to valid JSON
Confirms(h) == h.str = "b64" /\ h.text.json

\* C15: once the paid request has been sent, the flow fails only with the error
\* of the paid request itself (a 402 answer or a transport error); on a non-402
\* paid response it returns the response with paymentResult {success = ok flag,
\* amountPaid = the selected offer's amount}; the transaction id and the network
\* of a PAYMENT-RESPONSE header that decodes to valid JSON replace the defaults
\* (each when it is non-empty); with the header absent or undecodable the
\* defaults (the selected offer's network, the flow's own transaction id if any)
\* are kept.
C15_PaymentResult ==
    /\ (calls.paid > 0 /\ outcome.state = "threw") =>
          \/ Rejected402(outcome.err)
          \/ outcome.err \in {transportError(t) : t \in BOOLEAN}
    /\ (outcome.state = "returned" /\ outcome.hasPaymentResult) =>
          LET paidResponse == outcome.response
              h == paidResponse.paymentResponse
              confirmation == h.text.val
              paymentResult == outcome.paymentResult
          IN  /\ calls.paid > 0
              /\ paidResponse.status # 402
              /\ paymentResult.success = (paidResponse.status \in 200..299)
              /\ paymentResult.amountPaid = selected.maxAmountRequired
              /\ paymentResult.txHash =
                    IF Confirms(h) /\ confirmation.transaction \notin {Undefined, ""}
                    THEN confirmation.transaction ELSE built.txHash
              /\ paymentResult.network =
                    IF Confirms(h) /\ confirmation.network \notin {Undefined, ""}
                    THEN confirmation.network ELSE selected.network

C15_Witness ==
    /\ outcome.state = "returned"
    /\ outcome.response.paymentResponse = paymentResponseOf("0xabc", "base-sepolia")
    /\ selected.network = "radius-testnet"
    /\ outcome.paymentResult =
          [success |-> TRUE, txHash |-> "0xabc", amountPaid |-> "1000000",
           network |-> "base-sepolia"]

\* the PAYMENT-REQUIRED header of a response is present and decodes to valid JSON
HeaderDecodes(response) ==
    response.paymentRequired.str = "b64" /\ response.paymentRequired.text.json

\* the structure the offers are to be taken from
ChallengeOf(response) ==
    IF HeaderDecodes(response) THEN response.paymentRequired.text.val ELSE response.body.val

\* no usable offer list: the body had to be read and is not JSON, or the offer
\* list of the structure is missing or empty
Unparsable(response) ==
    \/ ~HeaderDecodes(response) /\ ~response.body.json
    \/ "accepts" \notin DOMAIN ChallengeOf(response)
    \/ ChallengeOf(response).accepts = <<>>

ParseErrors(url) ==
    {[name |-> "Error", tokens |-> {}, message |-> m] :
        m \in {"x402: API at " \o url \o " returned 402 but body is not valid JSON.",
               "x402: API at " \o url
                   \o " returned 402 but body is not valid JSON. Received: not json",
               "x402: 402 response from " \o url \o " missing valid \"accepts\" array"}}

\* C16: on a 402 the offers come from the PAYMENT-REQUIRED header whenever it
\* is present and decodes to valid JSON, whatever the body says, and from the
\* JSON body otherwise; a body that is not valid JSON, or a structure whose
\* offer list is missing or empty, ends the flow with a parse error naming the
\* requested URL, with nothing selected and nothing signed.
C16_ChallengeParsing ==
    (initialResponse.status = 402 /\ cpc # "initial") =>
        /\ Unparsable(initialResponse) =>
              /\ cpc = "done"
              /\ outcome.state = "threw"
              /\ outcome.err \in ParseErrors(Resource)
              /\ selected = NoRequirement
              /\ calls.rpc = 0 /\ calls.supported = 0 /\ calls.sign = 0 /\ calls.paid = 0
        /\ ~Unparsable(initialResponse) =>
              /\ outcome.err \notin ParseErrors(Resource)
              /\ selected # NoRequirement =>
                    \E i \in 1..Len(ChallengeOf(initialResponse).accepts) :
                        selected = ChallengeOf(initialResponse).accepts[i]

PermitFamily == {"base", "base-sepolia", "radius", "radius-testnet"}

\* C18: in the EVM client, for an offer on a permit-family network the Permit
\* is attempted first (nothing else is signed while it is under way), and the
\* direct-payment authorization is signed and built only once the Permit
\* attempt has failed, for the selected network and amount; on every other
\* network no Permit is attempted and a transfer-with-authorization is built.
C18_BuilderDispatch ==
    clientKind = "evm" =>
        /\ cpc \in {"nonce", "signPermit"} =>
              selected.network \in PermitFamily /\ permit = "attempted" /\ calls.sign = 0
        /\ cpc = "signSbc" => selected.network \in PermitFamily /\ permit = "failed"
        /\ cpc = "sign3009" => selected.network \notin PermitFamily /\ permit = "none"
        /\ built.method # "none" =>
              /\ built.network = toCAIP2(selected.network)
              /\ built.amount = selected.maxAmountRequired
              /\ IF selected.network \in PermitFamily
                 THEN \/ built.method = "permit" /\ permit = "signed"
                      \/ built.method = "sbc" /\ permit = "failed"
                 ELSE built.method = "eip3009" /\ permit = "none"

C18_Witness ==
    /\ clientKind = "evm"
    /\ selected.network = "radius-testnet"
    /\ options.rpcUrl = "https://rpc.example"
    /\ calls.sign = 2
    /\ permit = "failed"
    /\ built.method = "sbc"
    /\ built.network = "eip155:72344"
    /\ built.amount = "1000000"

\* C19: in every client flow, whenever the selected offer is on solana or
\* solana-devnet, nothing but the chain-native message is signed and the payload
\* built and sent is the chain-native one, never a Permit, a direct payment or a
\* transfer-with-authorization.
C19_NonEvmNativeOnly ==
    selected.network \in {"solana", "solana-devnet"} =>
        /\ cpc \notin {"nonce", "signPermit", "signSbc", "sign3009"}
        /\ built.method \in {"none", "solana"}
        /\ calls.paid > 0 =>
              JSONparse(fromBase64(paidHeaders.primary)).val.method = "solana"

\* the steps of client.fetch that come after an offer has been selected and
\* before the payload is signed
BeforeSigned == {"balance", "discover", "nonce", "signPermit", "signSbc", "sign3009", "signSolana"}

\* Step 3 has read a balance that covers the selected offer
balancePassed == balance.read /\ ~insufficient(balance.value, selected)

\* C33: a client flow passes through its phases in order: the signer is
\* invoked only after an offer has been selected and, when the balance check
\* is enabled, after it has passed; the paid request is sent only after a
\* signature has been obtained; and the flow completes with a payment only
\* after the paid request got a response other than 402
C33_PhaseOrder ==
    /\ cpc = "initial" =>
            selected = NoRequirement /\ calls.sign = 0 /\ calls.paid = 0 /\ built = NoPayload
    /\ cpc \in BeforeSigned =>
            selected # NoRequirement /\ built = NoPayload /\ calls.paid = 0
    /\ (cpc \in BeforeSigned \ {"balance"} \/ calls.sign > 0) =>
            /\ selected # NoRequirement
            /\ (clientKind = "evm" /\ checksBalance(options, selected.network)) => balancePassed
    /\ (cpc = "paid" \/ calls.paid > 0) => built # NoPayload /\ calls.sign > 0
    /\ (outcome.state = "returned" /\ outcome.hasPaymentResult) =>
            calls.paid > 0 /\ outcome.response.status # 402
    /\ (outcome.state = "returned" /\ ~outcome.hasPaymentResult) =>
            calls.sign = 0 /\ calls.paid = 0 /\ outcome.response.status # 402

\* an EVM flow that went through every phase, the balance check included
C33_Witness ==
    /\ clientKind = "evm"
    /\ outcome.state = "returned"
    /\ outcome.hasPaymentResult
    /\ outcome.response.status = 200
    /\ calls.sign > 0
    /\ calls.paid > 0
    /\ checksBalance(options, selected.network)
    /\ balancePassed

\* the errors the clients make of a 402 answer to the paid request
Rejections ==
    {resourceAttempt(kind, o, TRUE).err.message :
        kind \in {"evm", "solana"},
        o \in {x \in ResourceOutcomes : x.kind # "neterr" /\ x.resp.status = 402}}

\* C39: a paid request that the server answers with 402 is not sent again:
\* the 402 ends the flow with that error, so the request it answered is the
\* only one of the flow that reached the server with the payment header, for
\* every body the 402 response can have
C39_RejectedNotResent ==
    lastError.message \in Rejections =>
        /\ cpc = "done"
        /\ outcome.state = "threw"
        /\ outcome.err = lastError

-----------------------------------------------------------------------------
(* Properties of the requirement selector *)

\* the networks a selector recognizes: the registry's for the EVM client, the
\* two Solana networks for the Solana client
Recognized(kind) ==
    IF kind = "evm" THEN DOMAIN SUPPORTED_NETWORKS ELSE {"solana", "solana-devnet"}

TestNetworks == {"base-sepolia", "radius-testnet", "solana-devnet"}

\* amounts and budgets as mantissa * 10^exponent
Atomic(amount) ==
    CASE amount = "1000000" -> [m |-> 1, e |-> 6]
      [] amount = "2000000000" -> [m |-> 2, e |-> 9]
      [] amount = "1000000000000000000" -> [m |-> 1, e |-> 18]

Usd(budget) ==
    CASE budget = "0" -> [m |-> 0, e |-> 0]
      [] budget = "1.5" -> [m |-> 15, e |-> -1]
      [] budget = "0.0000015" -> [m |-> 15, e |-> -7]

\* a * 10^(a.e) <= b * 10^(b.e), for mantissas below 100
AtMost(a, b) ==
    LET k == a.e - b.e
    IN  IF a.m = 0 THEN TRUE
        ELSE IF b.m = 0 THEN FALSE
        ELSE IF k >= 2 THEN FALSE
        ELSE IF k <= -2 THEN TRUE
        ELSE IF k = 1 THEN a.m * 10 <= b.m
        ELSE IF k = -1 THEN a.m <= b.m * 10
        ELSE a.m <= b.m

\* the offer is within the budget converted at the precision of its network
WithinBudget(r, budget) ==
    AtMost(Atomic(r.maxAmountRequired),
           [m |-> Usd(budget).m, e |-> Usd(budget).e + SUPPORTED_NETWORKS[r.network].decimals])

\* S: the recognized offers within the budget, in the order offered
Survivors(in) ==
    LET survives(r) ==
            /\ r.network \in Recognized(in.kind)
            /\ in.maxAmount \notin {Undefined, ""} => WithinBudget(r, in.maxAmount)
    IN  SelectSeq(in.requirements, survives)

\* C17: with S the recognized offers within the budget (converted at each
\* offer's network precision), the selector returns no offer exactly when S is
\* empty; otherwise an offer of S: on the preferred network if S has one,
\* else on a test network if S has one, else one with the smallest amount.
C17_RequirementSelector ==
    selectorResult.called =>
        LET S == Survivors(selectorInput)
            chosen == selectorResult.requirement
            preferred == selectorInput.preferredNetwork
            offered(N) == \E i \in 1..Len(S) : S[i].network \in N
        IN  /\ selectorResult.found <=> Len(S) > 0
            /\ selectorResult.found =>
                  /\ \E i \in 1..Len(S) : S[i] = chosen
                  /\ IF preferred # Undefined /\ offered({preferred})
                     THEN chosen.network = preferred
                     ELSE IF offered(TestNetworks)
                     THEN chosen.network \in TestNetworks
                     ELSE \A i \in 1..Len(S) :
                              AtMost(Atomic(chosen.maxAmountRequired),
                                     Atomic(S[i].maxAmountRequired))

-----------------------------------------------------------------------------
(* Properties of the gate's calls to the facilitator *)

\* C30: when the matched entry was configured with an apiKey, every verify and
\* settle request the gate sends to the facilitator carries that key in the
\* X-API-Key header.
C30_ApiKeyPropagation ==
    (matched # 0 /\ Truthy(entries[matched].apiKey)) =>
        \A key \in sent.apiKeys : key = entries[matched].apiKey

\* the reason a failed SettleResponse states: error, or errorReason
statedReason(doc) == IF Truthy(doc.error) THEN doc.error ELSE doc.errorReason

\* C28: when the facilitator answers verify with isValid=false or settle with
\* success=false, that request is the call's last one (the answer to the first
\* request is returned after one request), nothing further is sent, and the
\* gate's 402 carries the reason the facilitator stated: invalidReason as the
\* error field, the settle reason inside "Payment settlement failed: ...".
C28_SemanticFailuresTerminal ==
    /\ (verifyResult.state = "resolved" /\ verifyResult.doc.kind = "object"
          /\ ~verifyResult.doc.isValid) =>
            /\ gpc = "done"
            /\ sent.verify = attempt
            /\ sent.settle = 0
            /\ res.status = 402
            /\ Truthy(verifyResult.doc.invalidReason) =>
                  res.body.error = verifyResult.doc.invalidReason
    /\ (settleResult.state = "resolved" /\ settleResult.doc.kind = "object"
          /\ ~settleResult.doc.success) =>
            /\ gpc = "done"
            /\ sent.settle = attempt
            /\ res.status = 402
            /\ Truthy(statedReason(settleResult.doc)) =>
                  res.body.error = "Payment settlement failed: "
                                   \o statedReason(settleResult.doc)

\* facilitator.verify resolved with a document whose isValid is true
verifiedValid ==
    /\ verifyResult.state = "resolved"
    /\ verifyResult.doc.kind = "object"
    /\ verifyResult.doc.isValid

\* the messages the Solana client throws for a verify that answered invalid
VerificationFailures ==
    {"Payment verification failed: " \o Str(doc.invalidReason) :
        doc \in {d \in VerifyDocs : d.kind = "object" /\ ~d.isValid}}

inAuthorized ==
    /\ matched # 0
    /\ verifiedValid
    /\ shouldSettle(entries[matched]) =>
            /\ settleResult.state = "resolved"
            /\ settleResult.doc.kind = "object"
            /\ settleResult.doc.success

\* C35: every handled request ends in exactly one of two ways: a 402 is
\* written, once, or downstream is invoked, once; never both and never
\* neither; and downstream is invoked only in the Authorized state
C35_ExactlyOneOutcome ==
    /\ gpc = "done" =>
            \/ writes = 1 /\ nextCalled = 0
            \/ writes = 0 /\ nextCalled = 1
    /\ writes <= 1
    /\ nextCalled <= 1
    /\ nextCalled > 0 => inAuthorized

\* facilitator.settle resolved with a document whose success is true
settledOk ==
    /\ settleResult.state = "resolved"
    /\ settleResult.doc.kind = "object"
    /\ settleResult.doc.success

\* C36: once settle has returned success the gate's answer is the
\* downstream handler's outcome: the gate writes no 402 of its own, whatever
\* downstream does, throwing included, in the Express and the Next.js gate
C36_No402AfterSettle ==
    settledOk => writes = 0 /\ res.status # 402

-----------------------------------------------------------------------------
(* Properties of the retry executor *)

\* neither the name nor the message of err contains a retryable token
NonRetryable(err) == err.tokens \cap retryOpts.retryableErrors = {}

\* C20: when the operation fails with an error whose name and message contain
\* none of the retryable tokens (case-sensitive), withRetry ends at once by
\* throwing that same error: the operation has been invoked once per attempt
\* and not again, no delay has been awaited after the failure, and the
\* remaining attempts stay unused.
C20_NonRetryableRethrown ==
    (loop.lastError # NoError /\ NonRetryable(loop.lastError)) =>
        /\ loop.pc = "done"
        /\ log.state = "threw"
        /\ log.err = loop.lastError
        /\ log.invocations = loop.attempt
        /\ Len(log.sleeps) = loop.attempt - 1

C20_Witness ==
    /\ retryOpts.maxAttempts = 3
    /\ loop.pc = "done"
    /\ loop.attempt = 1
    /\ loop.lastError.message = "econnreset by peer"
    /\ log = [invocations |-> 1, sleeps |-> <<>>, state |-> "threw", err |-> loop.lastError]

\* C21: when every attempt has failed with a retryable error, withRetry has
\* invoked the operation exactly maxAttempts times, has awaited exactly
\* maxAttempts - 1 delays (none after the final attempt) and fails with the
\* error of the last attempt; until then it has thrown nothing.
C21_Exhaustion ==
    (loop.lastError # NoError /\ ~NonRetryable(loop.lastError)) =>
        /\ loop.attempt <= retryOpts.maxAttempts
        /\ log.state = "threw" =>
              /\ loop.pc = "done"
              /\ log.invocations = retryOpts.maxAttempts
              /\ Len(log.sleeps) = retryOpts.maxAttempts - 1
              /\ log.err = loop.lastError
        /\ (loop.pc = "done" /\ log.state = "returned") =>
              log.invocations = loop.attempt /\ loop.attempt > 1
        /\ loop.pc = "sleep" =>
              /\ loop.attempt < retryOpts.maxAttempts
              /\ log.invocations = loop.attempt
              /\ Len(log.sleeps) = loop.attempt - 1

C21_Witness ==
    /\ retryOpts = DEFAULT_OPTIONS
    /\ loop.pc = "done"
    /\ log.state = "threw"
    /\ log.invocations = 3
    /\ Len(log.sleeps) = 2
    /\ log.err.message = "connection lost"

\* b to the power n
RECURSIVE Pow(_, _)
Pow(b, n) == IF n = 0 THEN 1 ELSE b * Pow(b, n - 1)

\* C22: the k-th delay awaited equals
\* min(initialDelay * backoffMultiplier^(k-1), maxDelay), so that no delay
\* exceeds maxDelay, whatever the options are.
C22_Backoff ==
    \A k \in 1..Len(log.sleeps) :
        /\ log.sleeps[k] = min(retryOpts.initialDelay * Pow(retryOpts.backoffMultiplier, k - 1),
                               retryOpts.maxDelay)
        /\ log.sleeps[k] <= retryOpts.maxDelay

-----------------------------------------------------------------------------
(* Properties of the FacilitatorClient *)

\* C23: a verify or settle call whose request was cancelled by the timeout has
\* failed with PaymentTimeoutError, and a call that was answered with a non-2xx
\* status (and not cancelled) has failed with a FacilitatorError carrying that
\* status and the response body.
C23_ErrorMapping ==
    fcall.pc = "done" =>
        LET cancelled == \E k \in 1..Len(fcall.answers) : fcall.answers[k].kind = "abort"
        IN  /\ cancelled =>
                  fcall.state = "threw" /\ fcall.err.name = "PaymentTimeoutError"
            /\ \A k \in 1..Len(fcall.answers) :
                  (fcall.answers[k].kind = "status" /\ ~cancelled) =>
                      /\ fcall.state = "threw"
                      /\ fcall.err.name = "FacilitatorError"
                      /\ fcall.err.statusCode = fcall.answers[k].status
                      /\ fcall.err.message = "Facilitator " \o fcall.op \o " failed: "
                                             \o responseText(fcall.answers[k])

\* C29: a verify or settle call ends with a transient transport fault (the
\* request timed out, or the connection was reset) only when the fault met
\* the last of the 3 attempts; on an earlier attempt the request is sent again.
C29_TransientFaultsRetried ==
    (fcall.pc = "done" /\ fcall.state = "threw") =>
        LET last == fcall.answers[Len(fcall.answers)]
        IN  (last.kind = "abort" \/ (last.kind = "neterr" /\ last.tok)) =>
                Len(fcall.requests) = maxAttempts

\* the requests the four operations have sent
outbound ==
    {fcall.requests[k] : k \in 1..Len(fcall.requests)}
    \cup {health.requests[k] : k \in 1..Len(health.requests)}
    \cup UNION {{discoveries[i].requests[k] : k \in 1..Len(discoveries[i].requests)} :
                  i \in DOMAIN discoveries}

\* C24: every request verify, settle, getSignerForNetwork and isHealthy send is
\* under a timer of timeoutMs, and each of these operations, once called,
\* eventually completes even if the remote never answers.
C24_TimeBounded ==
    /\ [](\A r \in outbound : r.timed /\ r.timeoutMs = facilitator.timeoutMs)
    /\ (fcall.pc # "idle") ~> (fcall.pc = "done")
    /\ (health.pc # "idle") ~> (health.pc = "done")
    /\ (discoveries[1].pc # "idle") ~> (discoveries[1].pc = "done")

\* C25: a new FacilitatorClient has an empty signer cache; once a discovery call
\* for a facilitator URL has completed the cache holds an entry for that URL,
\* an entry never changes or disappears, and a discovery call made when the
\* entry exists returns it without sending a request.
C25_CacheLifecycle ==
    /\ facilitator.signerCache = <<>>
    /\ [](\A i \in DOMAIN discoveries :
            discoveries[i].pc = "done" =>
                discoveries[i].facilitatorUrl \in DOMAIN facilitator.signerCache)
    /\ [][/\ \A u \in DOMAIN facilitator.signerCache :
               /\ u \in DOMAIN facilitator'.signerCache
               /\ facilitator'.signerCache[u] = facilitator.signerCache[u]
          /\ \A i \in DOMAIN discoveries :
               (/\ discoveries[i].pc = "idle"
                /\ discoveries'[i].pc # "idle"
                /\ discoveries'[i].facilitatorUrl \in DOMAIN facilitator.signerCache) =>
                   /\ discoveries'[i].pc = "done"
                   /\ discoveries'[i].requests = <<>>
                   /\ discoveries'[i].signer =
                         facilitator.signerCache[discoveries'[i].facilitatorUrl]]_vars

\* C27: the EVM client's signer discovery never ends the flow: whatever the
\* /supported request comes to, the result (an address or absent) is cached and
\* the flow goes on to build the payload (it can fail only at a later signing
\* step or request); the facilitator address a Permit or
\* SBC payment is signed for is the discovered address, else the offer's
\* facilitator hint, else the registry's address for the offer's network.
C27_DiscoveryNeverFatal ==
    clientKind = "evm" =>
        /\ (cpc \in {"nonce", "signPermit", "signSbc", "sign3009"} \/ built.method # "none") =>
              signerCache.has
        /\ calls.supported > 0 =>
              /\ signerCache.has
              /\ cpc # "discover"
              /\ outcome.state = "threw" => calls.sign > 0
        /\ built.method \in {"permit", "sbc"} =>
              built.spender =
                 IF signerCache.signer # Undefined THEN signerCache.signer
                 ELSE IF selected.facilitator # Undefined THEN selected.facilitator
                 ELSE SUPPORTED_NETWORKS[selected.network].facilitatorAddress

C27_Witness ==
    /\ clientKind = "evm"
    /\ calls.supported = 1
    /\ signerCache.has
    /\ signerCache.signer = Undefined
    /\ selected.facilitator = Undefined
    /\ built.method = "sbc"
    /\ built.spender = "0xdeE7"
    /\ outcome.state = "returned"

\* the callers whose call missed the cache and sent a /supported request for url
writers(url) ==
    {i \in DOMAIN discoveries :
        discoveries[i].requests # <<>> /\ discoveries[i].facilitatorUrl = url}

\* C26: when discovery calls that ran concurrently for one facilitator URL have
\* all completed, the cache entry of that URL is the value each of them wrote
\* and returned: the last write is idempotent, so the entry does not depend on
\* which call wrote last.
C26_ConcurrentDiscovery ==
    \A u \in DOMAIN facilitator.signerCache :
        (\A i \in writers(u) : discoveries[i].pc = "done") =>
            \A i \in writers(u) : discoveries[i].signer = facilitator.signerCache[u]

\* the attempt's request was answered with an HTTP response, of any status
\* and with any body, rather than failing in transport or being cancelled
httpAnswer(a) == a.kind \in {"json", "status", "nonjson"}

\* C38: once the facilitator has answered a verify or settle request with an
\* HTTP response, of any status and any body text, the call sends no further
\* request: the answered request is the call's last
C38_NoRetryAfterAnswer ==
    \A k \in 1..Len(fcall.answers) :
        httpAnswer(fcall.answers[k]) => Len(fcall.requests) = k /\ fcall.pc = "done"

\* the addresses a /supported answer can list first for caip2Network, under
\* its exact key or else under its namespace wildcard
listedFor(caip2Network) ==
    {firstSigner(b, caip2Network) : b \in {x \in SupportedBodies : x.kind = "object"}}
        \ {Undefined}

\* C40: every getSignerForNetwork call on one client, whatever calls went
\* before it, returns absent or the first signer a /supported answer lists
\* for the requested chain address (exact entry, else namespace wildcard),
\* never an address listed only for another chain namespace
C40_DiscoveryForRequestedNetwork ==
    \A i \in DOMAIN discoveries :
        discoveries[i].pc = "done" =>
            \/ discoveries[i].signer = Undefined
            \/ discoveries[i].signer \in listedFor(discoveries[i].network)

-----------------------------------------------------------------------------
(* Properties of the client behind the gate *)

\* C11 (as claimed): with a gate offering one base-sepolia offer of "1000000",
\* a payer with sufficient balance and a facilitator that accepts and settles,
\* client.fetch completes with exactly one signing call and exactly one paid
\* request, and paymentResult.txHash is the transaction id of the facilitator's
\* settlement response.
C11_EndToEnd ==
    (cpc = "done" /\ fetches = 1) =>
        /\ outcome.state = "returned"
        /\ outcome.hasPaymentResult
        /\ calls.sign = 1
        /\ calls.paid = 1
        /\ settleResult.state = "resolved"
        /\ outcome.paymentResult.txHash = CarriedId(settleResult.doc)

-----------------------------------------------------------------------------
(* Properties of the useX402 hook *)

\* the calls of the hook's fetch that have received a 402 and are not over
payingCalls == {i \in DOMAIN hookCalls : hookCalls[i].paymentTriggered /\ hookCalls[i].pc # "done"}

\* C31: at every moment the hook's paying flag is true exactly when at least
\* one fetch started through the hook has received a 402 and has not yet
\* completed, for overlapping calls as well as for sequential ones
C31_PayingFlag ==
    hook.paying <=> payingCalls # {}

-----------------------------------------------------------------------------
(* Properties of concurrent flows *)

\* Step 4 of a fetch that runs alone on a new client: one /supported
\* request, and the signer the document lists for the fetch's network
alone(caip2Network) ==
    LET facilitatorUrl == getFacilitatorUrl(facilitator, caip2Network)
    IN  [requests |-> <<plainRequest(facilitatorUrl \o "/supported")>>,
         signer |-> discoveredSigner([kind |-> "json", body |-> remote], caip2Network)]

\* C32: flows that run concurrently do not influence each other: under every
\* interleaving each flow makes the facilitator calls, and gets the signer
\* its payment is signed for, that it makes and gets when it runs alone
\* against the same remote answers
C32_FlowIndependence ==
    \A i \in DOMAIN discoveries :
        discoveries[i].pc = "done" =>
            /\ discoveries[i].requests = alone(discoveries[i].network).requests
            /\ discoveries[i].signer = alone(discoveries[i].network).signer

-----------------------------------------------------------------------------
(* Properties of a client flow composed with the gate *)

\* C37: in a run of one client flow against a gate with settlement enabled
\* and a facilitator without transport faults, /settle receives at most one
\* request for the signed payload, whoever sends it
C37_AtMostOneSettlement ==
    calls.settle + sent.settle <= 1

====
